---- MODULE Spec2Model ----
(***************************************************************************)
(* Smart-farm security system: the request interceptor (rate limiter,      *)
(* block list, traffic pattern analyzer, security-event logger) of         *)
(* app/security_middleware.py, the sensor ingestion handler of             *)
(* app/routes/sensor.py and the anomaly detector of                        *)
(* app/anomaly_detection.py.                                               *)
(*                                                                         *)
(* Units: time is in seconds (time.time()); temperatures and humidities    *)
(* are in tenths (50.0 is 500); confidences are in hundredths (0.95 is 95).*)
(* Python None is the string "none".                                       *)
(*                                                                         *)
(* Scheduling: dispatch runs as a coroutine on one event loop, so the code *)
(* between two awaits is one step.  The only await of dispatch that        *)
(* suspends is call_next (the route handlers are plain functions run in    *)
(* the thread pool); log_api_request and analyze_request_patterns contain  *)
(* no await.  A request is therefore three steps: DispatchPre, Handler,    *)
(* DispatchPost.                                                           *)
(***************************************************************************)
EXTENDS Integers, Sequences, FiniteSets, Bags, TLC

VARIABLES
    now,                  \* time.time(), seconds
    rate_limit_storage,   \* self.rate_limit_storage: key -> list of timestamps
    blocked_ips,          \* self.blocked_ips
    suspicious_activities,\* self.suspicious_activities: key -> int
    security_events,      \* table security_events (bag of rows)
    threat_alerts,        \* table threat_alerts (bag of rows)
    audit_logs,           \* table audit_logs (bag of rows)
    sensor_data,          \* table sensor_data (sequence, id = index)
    old_rows,             \* sensor_data rows older than every detector window
    trained,              \* the detector's model_trained, scaler, model, training_scores
    inflight,             \* requests between call_next and their response (bag)
    resp,                 \* the response most recently returned by dispatch
    admitted,             \* history: key -> bag of the times of admitted requests
    trainer,              \* a train_model call in progress (thread)
    infer,                \* a _detect_anomalies_ml call in progress (thread)
    maint                 \* a reset_rate_limits call in progress (thread)

vars == <<now, rate_limit_storage, blocked_ips, suspicious_activities,
          security_events, threat_alerts, audit_logs, sensor_data, old_rows,
          trained, inflight, resp, admitted, trainer, infer, maint>>

----
\* Bounds of the model.
MaxRequests == 10
MaxInFlight == 1
MaxMaintenance == 1
MaxOther == 1

Clients == {"10.0.0.1", "10.0.0.2"}
Endpoints == {"/auth/login", "/sensor/add", "/other"}
\* the instants at which the model looks at the clock
TimePoints == {0, 299, 300}
Agents == {"Mozilla", "curl"}

----
\* SecurityMiddleware.__init__: the rate limit table.
LoginLimit == 5
LoginWindow == 300
SensorAddLimit == 60
SensorAddWindow == 60
DefaultLimit == 100
DefaultWindow == 60

rate_limits(endpoint) ==
    CASE endpoint = "/auth/login" -> [limit |-> LoginLimit, window |-> LoginWindow]
      [] endpoint = "/sensor/add" -> [limit |-> SensorAddLimit, window |-> SensorAddWindow]
      [] OTHER -> [limit |-> DefaultLimit, window |-> DefaultWindow]

\* Thresholds of is_rate_limited, analyze_request_patterns and reset_rate_limits.
BlockThreshold == 5
SuspiciousLoginThreshold == 5
LoginBlockThreshold == 10
ScanThreshold == 20
KeepSeconds == 3600

\* f"{client_ip}:{endpoint}"
RateKey(client_ip, endpoint) == <<client_ip, endpoint>>
\* client_ip, f"{client_ip}:failed_login", f"{client_ip}:404s" (suffix "" is the bare address)
SuspKey(client_ip, suffix) == <<client_ip, suffix>>

\* defaultdict reads: a missing key reads as the default.
StorageGet(storage, key) == IF key \in DOMAIN storage THEN storage[key] ELSE <<>>
SuspGet(susp, key) == IF key \in DOMAIN susp THEN susp[key] ELSE 0

\* d[key] = value on a dict
DictSet(d, key, value) == [k \in (DOMAIN d) \cup {key} |-> IF k = key THEN value ELSE d[k]]
\* del d[key] for every key in keys
DictDel(d, keys) == [k \in (DOMAIN d) \ keys |-> d[k]]

----
\* SecurityMiddleware.log_security_event on the tables db = [events, alerts]:
\* the event row, and a threat alert when the severity is critical or high.
SecurityEventRow(event_type, severity, source_ip, sensor_id, anomaly_type, confidence, endpoint) ==
    [event_type |-> event_type, severity |-> severity, source_ip |-> source_ip,
     sensor_id |-> sensor_id, anomaly_type |-> anomaly_type, confidence |-> confidence,
     endpoint |-> endpoint, status |-> "open"]

ThreatAlertRow(alert_type, threat_level, source_ip, target_endpoint, action_taken) ==
    [alert_type |-> alert_type, threat_level |-> threat_level, source_ip |-> source_ip,
     target_endpoint |-> target_endpoint, action_taken |-> action_taken]

\* "if severity in ["critical", "high"]"
NeedsAlert_CriticalOnly(severity) == severity = "critical"
NeedsAlert(severity) == severity \in {"critical", "high"}

log_security_event(db, event_type, severity, source_ip, endpoint, action_taken) ==
    LET ev == SecurityEventRow(event_type, severity, source_ip, "none", "none", 0, endpoint)
        al == ThreatAlertRow(event_type, severity, source_ip, endpoint,
                             IF action_taken = "none" THEN "logged" ELSE action_taken)
    IN  [events |-> db.events (+) SetToBag({ev}),
         alerts |-> IF NeedsAlert(severity)
                    THEN db.alerts (+) SetToBag({al})
                    ELSE db.alerts]

----
\* SecurityMiddleware.is_rate_limited, as the new state it leaves and its result.
\* st = [storage, susp, blocked, db]
InWindow_KeepHour(times, cutoff_time) ==
    SelectSeq(times, LAMBDA req_time : req_time > cutoff_time - KeepSeconds)
InWindow(times, cutoff_time) == SelectSeq(times, LAMBDA req_time : req_time > cutoff_time)

\* "if requests_in_window >= limit"
LimitExceeded_OffByOne(requests_in_window, limit) == requests_in_window > limit
LimitExceeded(requests_in_window, limit) == requests_in_window >= limit

\* "if self.suspicious_activities[client_ip] >= 5"
TooManyViolations_OffByOne(count) == count > BlockThreshold
TooManyViolations(count) == count >= BlockThreshold

is_rate_limited(st, client_ip, endpoint, current_time) ==
    LET rate_config == rate_limits(endpoint)
        key == RateKey(client_ip, endpoint)
        pruned == InWindow(StorageGet(st.storage, key), current_time - rate_config.window)
        storage1 == DictSet(st.storage, key, pruned)
        skey == SuspKey(client_ip, "")
        count == SuspGet(st.susp, skey) + 1
    IN  IF LimitExceeded(Len(pruned), rate_config.limit)
        THEN [limited |-> TRUE,
              storage |-> storage1,
              susp |-> DictSet(st.susp, skey, count),
              blocked |-> IF TooManyViolations(count)
                          THEN st.blocked \cup {client_ip} ELSE st.blocked,
              db |-> IF TooManyViolations(count)
                     THEN log_security_event(st.db, "ip_blocked", "high", client_ip,
                                             "none", "blocked")
                     ELSE st.db]
        ELSE [limited |-> FALSE,
              storage |-> DictSet(st.storage, key, Append(pruned, current_time)),
              susp |-> st.susp,
              blocked |-> st.blocked,
              db |-> st.db]

----
\* AnomalyDetector.__init__: thresholds, in tenths.
TempCriticalHigh == 450
TempCriticalLow == -100
TempWarningHigh == 350
TempWarningLow == 50
HumCriticalHigh == 950
HumCriticalLow == 150
HumWarningHigh == 850
HumWarningLow == 250
SensorDataPerMinute == 20
MinTrainingRows == 100
RapidTempChange == 150
RapidHumChange == 300
RecentLimit == 5
RecentWindow == 600
FloodWindow == 60

\* schemas.AnomalyDetectionResult (current_value, expected_range and timestamp left out)
Finding(sensor_id, anomaly_type, severity, confidence) ==
    [sensor_id |-> sensor_id, anomaly_type |-> anomaly_type,
     severity |-> severity, confidence |-> confidence]

\* AnomalyDetector._check_temperature_anomaly: a list of zero or one finding
_check_temperature_anomaly_WarningFirst(temperature, sensor_id) ==
    IF temperature >= TempWarningHigh
    THEN <<Finding(sensor_id, "high_temperature_warning", "high", 75)>>
    ELSE IF temperature <= TempWarningLow
    THEN <<Finding(sensor_id, "low_temperature_warning", "high", 75)>>
    ELSE <<>>

_check_temperature_anomaly(temperature, sensor_id) ==
    IF temperature >= TempCriticalHigh
    THEN <<Finding(sensor_id, "critical_temperature_high", "critical", 95)>>
    ELSE IF temperature <= TempCriticalLow
    THEN <<Finding(sensor_id, "critical_temperature_low", "critical", 95)>>
    ELSE IF temperature >= TempWarningHigh
    THEN <<Finding(sensor_id, "high_temperature_warning", "high", 75)>>
    ELSE IF temperature <= TempWarningLow
    THEN <<Finding(sensor_id, "low_temperature_warning", "high", 75)>>
    ELSE <<>>

\* AnomalyDetector._check_humidity_anomaly
_check_humidity_anomaly(humidity, sensor_id) ==
    IF humidity >= HumCriticalHigh
    THEN <<Finding(sensor_id, "critical_humidity_high", "critical", 95)>>
    ELSE IF humidity <= HumCriticalLow
    THEN <<Finding(sensor_id, "critical_humidity_low", "critical", 95)>>
    ELSE IF humidity >= HumWarningHigh
    THEN <<Finding(sensor_id, "high_humidity_warning", "high", 75)>>
    ELSE IF humidity <= HumWarningLow
    THEN <<Finding(sensor_id, "low_humidity_warning", "high", 75)>>
    ELSE <<>>

RECURSIVE SumOver(_, _, _)
SumOver(data, ids, field) ==
    IF ids = {} THEN 0
    ELSE LET i == CHOOSE x \in ids : TRUE
         IN  (IF field = "temperature" THEN data[i].temperature ELSE data[i].humidity)
             + SumOver(data, ids \ {i}, field)

Abs(x) == IF x < 0 THEN -x ELSE x

\* The query of _detect_rapid_changes: the sensor's rows of the last 10 minutes
\* other than the current one, newest first, at most 5.  Rows with equal
\* timestamps come in the order the database chooses, so every choice of the
\* 5 newest is a possible result.
RecentEligible(data, current_id, current_time) ==
    {i \in DOMAIN data : /\ data[i].sensor_id = data[current_id].sensor_id
                         /\ data[i].timestamp >= current_time - RecentWindow
                         /\ i # current_id}

RecentChoices(data, current_id, current_time) ==
    LET el == RecentEligible(data, current_id, current_time)
        Newer(t) == {i \in el : data[i].timestamp > t}
        \* the timestamp of the last row that still gets in
        cut == CHOOSE t \in {data[i].timestamp : i \in el} :
                  /\ Cardinality(Newer(t)) < RecentLimit
                  /\ Cardinality(Newer(t)) + Cardinality({i \in el : data[i].timestamp = t})
                        >= RecentLimit
        ties == {i \in el : data[i].timestamp = cut}
    IN  IF Cardinality(el) <= RecentLimit THEN {el}
        ELSE {Newer(cut) \cup T :
                 T \in {U \in SUBSET ties :
                           Cardinality(U) = RecentLimit - Cardinality(Newer(cut))}}

\* a variant that also flags a change of exactly 15.0 or 30.0
_detect_rapid_changes_Inclusive(data, recent_readings, current_id) ==
    LET n == Cardinality(recent_readings)
        cur == data[current_id]
        temp_change == Abs(n * cur.temperature - SumOver(data, recent_readings, "temperature"))
        humidity_change == Abs(n * cur.humidity - SumOver(data, recent_readings, "humidity"))
    IN  IF n >= 2
        THEN (IF temp_change >= n * RapidTempChange
              THEN <<Finding(cur.sensor_id, "rapid_temperature_change", "high", 85)>>
              ELSE <<>>)
             \o
             (IF humidity_change >= n * RapidHumChange
              THEN <<Finding(cur.sensor_id, "rapid_humidity_change", "high", 85)>>
              ELSE <<>>)
        ELSE <<>>

\* AnomalyDetector._detect_rapid_changes on the rows the query returned:
\* abs(current - mean) > 15.0 is abs(n * current - sum) > n * 15.0
_detect_rapid_changes(data, recent_readings, current_id) ==
    LET n == Cardinality(recent_readings)
        cur == data[current_id]
        temp_change == Abs(n * cur.temperature - SumOver(data, recent_readings, "temperature"))
        humidity_change == Abs(n * cur.humidity - SumOver(data, recent_readings, "humidity"))
    IN  IF n >= 2
        THEN (IF temp_change > n * RapidTempChange
              THEN <<Finding(cur.sensor_id, "rapid_temperature_change", "high", 85)>>
              ELSE <<>>)
             \o
             (IF humidity_change > n * RapidHumChange
              THEN <<Finding(cur.sensor_id, "rapid_humidity_change", "high", 85)>>
              ELSE <<>>)
        ELSE <<>>

\* a variant that classifies only a sensor's first reading of the window
_detect_anomalies_rule_based_FirstOnly(data, recent_readings, current_id) ==
    [raised |-> FALSE,
     anomalies |-> (IF recent_readings = {}
                    THEN _check_temperature_anomaly(data[current_id].temperature,
                                                    data[current_id].sensor_id)
                         \o _check_humidity_anomaly(data[current_id].humidity,
                                                    data[current_id].sensor_id)
                    ELSE <<>>)
                   \o _detect_rapid_changes(data, recent_readings, current_id)]

\* AnomalyDetector._detect_anomalies_rule_based
_detect_anomalies_rule_based(data, recent_readings, current_id) ==
    [raised |-> FALSE,
     anomalies |-> _check_temperature_anomaly(data[current_id].temperature,
                                              data[current_id].sensor_id)
                   \o _check_humidity_anomaly(data[current_id].humidity,
                                              data[current_id].sensor_id)
                   \o _detect_rapid_changes(data, recent_readings, current_id)]

\* AnomalyDetector._detect_anomalies_ml.  prediction is the model's answer
\* (-1 outlier, 1 normal).  For an outlier the AnomalyDetectionResult is built
\* with current_value = "Temp: ..., Humidity: ...", a string where the schema
\* declares a float: the constructor raises and nothing is returned.
_detect_anomalies_ml(data, recent_readings, current_id, prediction) ==
    IF prediction = -1
    THEN [raised |-> TRUE, anomalies |-> <<>>]
    ELSE [raised |-> FALSE,
          anomalies |-> _detect_rapid_changes(data, recent_readings, current_id)]

\* AnomalyDetector.detect_sensor_anomalies
detect_sensor_anomalies(model_trained, data, recent_readings, current_id, prediction) ==
    IF ~model_trained
    THEN _detect_anomalies_rule_based(data, recent_readings, current_id)
    ELSE _detect_anomalies_ml(data, recent_readings, current_id, prediction)

\* a variant that leaves out the rows exactly one minute old
detect_data_flooding_OpenWindow(data, sensor_id, current_time) ==
    Cardinality({i \in DOMAIN data : /\ data[i].sensor_id = sensor_id
                                     /\ data[i].timestamp > current_time - FloodWindow})
        > SensorDataPerMinute

\* AnomalyDetector.detect_data_flooding
detect_data_flooding(data, sensor_id, current_time) ==
    Cardinality({i \in DOMAIN data : /\ data[i].sensor_id = sensor_id
                                     /\ data[i].timestamp >= current_time - FloodWindow})
        > SensorDataPerMinute

\* AnomalyDetector.detect_suspicious_patterns.  The query: the sensor's rows of
\* the last hour, newest first; rows of one timestamp come in any order.
PatternWindow == 3600
PatternMinReadings == 10
IdenticalThreshold == 5
PrecisionThreshold == 8

RECURSIVE NewestFirst(_, _)
NewestFirst(data, ids) ==
    IF ids = {} THEN {<<>>}
    ELSE UNION {{<<i>> \o rest : rest \in NewestFirst(data, ids \ {i})} :
                   i \in {j \in ids : \A k \in ids : data[k].timestamp <= data[j].timestamp}}

HourReadings(data, sensor_id, current_time) ==
    NewestFirst(data, {i \in DOMAIN data : /\ data[i].sensor_id = sensor_id
                                           /\ data[i].timestamp >= current_time - PatternWindow})

\* a variant that compares only the 10 newest rows
IdenticalCount_TopTen(data, recent_readings) ==
    Cardinality({i \in 2..10 :
                    /\ i <= Len(recent_readings)
                    /\ data[recent_readings[i]].temperature = data[recent_readings[1]].temperature
                    /\ data[recent_readings[i]].humidity = data[recent_readings[1]].humidity})

\* the number of rows after the first that repeat its temperature and humidity
IdenticalCount(data, recent_readings) ==
    Cardinality({i \in 2..Len(recent_readings) :
                    /\ data[recent_readings[i]].temperature = data[recent_readings[1]].temperature
                    /\ data[recent_readings[i]].humidity = data[recent_readings[1]].humidity})

\* a variant that looks for decimal places in all the rows of the hour
detect_suspicious_patterns_AllRows(data, recent_readings, sensor_id) ==
    IF Len(recent_readings) >= PatternMinReadings
    THEN LET precise_readings ==
                 Cardinality({i \in DOMAIN recent_readings :
                                 /\ data[recent_readings[i]].temperature % 10 = 0
                                 /\ data[recent_readings[i]].humidity % 10 = 0})
         IN  (IF IdenticalCount(data, recent_readings) >= IdenticalThreshold
              THEN <<Finding(sensor_id, "identical_readings_pattern", "medium", 80)>>
              ELSE <<>>)
             \o
             (IF precise_readings >= PrecisionThreshold
              THEN <<Finding(sensor_id, "unrealistic_precision_pattern", "medium", 70)>>
              ELSE <<>>)
    ELSE <<>>

\* a variant that asks for more than 5 repetitions
detect_suspicious_patterns_Strict(data, recent_readings, sensor_id) ==
    IF Len(recent_readings) >= PatternMinReadings
    THEN LET precise_readings ==
                 Cardinality({i \in 1..10 : /\ data[recent_readings[i]].temperature % 10 = 0
                                            /\ data[recent_readings[i]].humidity % 10 = 0})
         IN  (IF IdenticalCount(data, recent_readings) > IdenticalThreshold
              THEN <<Finding(sensor_id, "identical_readings_pattern", "medium", 80)>>
              ELSE <<>>)
             \o
             (IF precise_readings >= PrecisionThreshold
              THEN <<Finding(sensor_id, "unrealistic_precision_pattern", "medium", 70)>>
              ELSE <<>>)
    ELSE <<>>

\* recent_readings is the query's result, a sequence of row ids; a value in
\* tenths has no decimal places ("% 1 == 0") when it is a multiple of 10
detect_suspicious_patterns(data, recent_readings, sensor_id) ==
    IF Len(recent_readings) >= PatternMinReadings
    THEN LET precise_readings ==
                 Cardinality({i \in 1..10 : /\ data[recent_readings[i]].temperature % 10 = 0
                                            /\ data[recent_readings[i]].humidity % 10 = 0})
         IN  (IF IdenticalCount(data, recent_readings) >= IdenticalThreshold
              THEN <<Finding(sensor_id, "identical_readings_pattern", "medium", 80)>>
              ELSE <<>>)
             \o
             (IF precise_readings >= PrecisionThreshold
              THEN <<Finding(sensor_id, "unrealistic_precision_pattern", "medium", 70)>>
              ELSE <<>>)
    ELSE <<>>

\* AnomalyDetector.create_security_event_from_anomaly: one security_events row,
\* no threat_alerts row.
severity_mapping_Default(severity) == "medium"
severity_mapping(severity) ==
    IF severity \in {"critical", "high", "medium", "low"} THEN severity ELSE "medium"

create_security_event_from_anomaly(db, anomaly, source_ip) ==
    [events |-> db.events (+) SetToBag({
                    SecurityEventRow("anomaly", severity_mapping(anomaly.severity), source_ip,
                                     anomaly.sensor_id, anomaly.anomaly_type,
                                     anomaly.confidence, "none")}),
     alerts |-> db.alerts]

\* the loop "for anomaly in anomalies: create_security_event_from_anomaly(...)"
\* over the first n findings
RECURSIVE CreateEvents(_, _, _, _)
CreateEvents(db, anomalies, n, source_ip) ==
    IF n = 0 THEN db
    ELSE create_security_event_from_anomaly(
             CreateEvents(db, anomalies, n - 1, source_ip), anomalies[n], source_ip)

\* routes/security.py analyze_sensor_for_anomalies.  recent_data is the query
\* of the sensor's 10 newest rows; AnalyzeReadings is the loop over its first n
\* rows, as the set of finding lists it can collect (one per outcome of the
\* queries of _detect_rapid_changes).  prediction is -1 when the trained model
\* flags one of the rows: the detector raises and the handler with it.
AnalyzeLimit == 10

RecentData(data, sensor_id) ==
    {SubSeq(order, 1, IF Len(order) < AnalyzeLimit THEN Len(order) ELSE AnalyzeLimit) :
        order \in NewestFirst(data, {i \in DOMAIN data : data[i].sensor_id = sensor_id})}

RECURSIVE AnalyzeReadings(_, _, _, _, _, _)
AnalyzeReadings(data, model_trained, recent_data, n, current_time, prediction) ==
    IF n = 0 THEN {<<>>}
    ELSE {prev \o detect_sensor_anomalies(model_trained, data, recent_readings,
                                          recent_data[n], prediction).anomalies :
             prev \in AnalyzeReadings(data, model_trained, recent_data, n - 1,
                                      current_time, prediction),
             recent_readings \in RecentChoices(data, recent_data[n], current_time)}

analyze_sensor_for_anomalies(data, db, model_trained, sensor_id, recent_data, reading_anomalies, pattern_readings, prediction) ==
    IF recent_data = <<>>
    THEN [status |-> 404, db |-> db]
    ELSE IF model_trained /\ prediction = -1
    THEN [status |-> 500, db |-> db]
    ELSE LET all_anomalies == reading_anomalies
                              \o detect_suspicious_patterns(data, pattern_readings, sensor_id)
         IN  [status |-> 200,
              db |-> CreateEvents(db, all_anomalies, Len(all_anomalies), "none")]

----
\* Inputs of the model.
Sensors == {"s1"}
Temps == {250, 500, 1001}
Hums == {500}
Predictions == {-1, 1}
\* where an exception is raised in the detection block of create_sensor_data:
\* -1 nowhere, 0 inside detect_sensor_anomalies, k >= 1 inside the k-th
\* create_security_event_from_anomaly
FailPoints == {-1, 0, 1}
SuspiciousAgents == {"bot", "crawler", "spider", "scanner", "curl", "wget"}

\* the inner "except Exception" of create_sensor_data prints the error and the
\* handler goes on to "return new_data"
AfterDetection_Propagate(detect_failed) == IF detect_failed THEN 500 ELSE 200
AfterDetection(detect_failed) == 200

\* "Basic validation" of create_sensor_data: temperature outside [-50, 100] or
\* humidity outside [0, 100]
OutOfRange_Strict(temperature, humidity) ==
    temperature <= -500 \/ temperature >= 1000 \/ humidity <= 0 \/ humidity >= 1000
OutOfRange(temperature, humidity) ==
    temperature < -500 \/ temperature > 1000 \/ humidity < 0 \/ humidity > 1000

\* routes/sensor.py create_sensor_data, as the response and the tables it leaves.
\* recent_readings is the result of the query of _detect_rapid_changes.
SensorRow(sensor_id, temperature, humidity, timestamp) ==
    [sensor_id |-> sensor_id, temperature |-> temperature,
     humidity |-> humidity, timestamp |-> timestamp]

create_sensor_data(data, db, model_trained, sensor_id, temperature, humidity, client_ip, current_time, recent_readings, prediction, fail_at) ==
    IF OutOfRange(temperature, humidity)
    THEN [status |-> 400, data |-> data, db |-> db, reading |-> 0, detect_failed |-> FALSE]
    ELSE IF detect_data_flooding(data, sensor_id, current_time)
    THEN [status |-> 429, data |-> data,
          db |-> create_security_event_from_anomaly(
                     db, Finding(sensor_id, "data_flooding", "high", 100), client_ip),
          reading |-> 0, detect_failed |-> FALSE]
    ELSE LET new_data == Append(data, SensorRow(sensor_id, temperature, humidity, current_time))
             id == Len(new_data)
             det == detect_sensor_anomalies(model_trained, new_data, recent_readings,
                                            id, prediction)
             found == IF det.raised \/ fail_at = 0 THEN <<>> ELSE det.anomalies
             created == IF fail_at >= 1 /\ fail_at <= Len(found)
                        THEN fail_at - 1 ELSE Len(found)
             failed == det.raised \/ fail_at = 0 \/ (fail_at >= 1 /\ fail_at <= Len(found))
         IN  [status |-> AfterDetection(failed), data |-> new_data,
              db |-> CreateEvents(db, found, created, client_ip),
              reading |-> id,
              detect_failed |-> failed]

\* "if ... >= 10" nested in "if ... >= 5": the failed logins that block a client
FailedLoginBlock_AtFive(count) == count >= SuspiciousLoginThreshold
FailedLoginBlock(count) == count >= SuspiciousLoginThreshold /\ count >= LoginBlockThreshold

\* "if self.suspicious_activities[f"{client_ip}:404s"] >= 20"
ScanSuspected_Late(count) == count > ScanThreshold
ScanSuspected(count) == count >= ScanThreshold

\* SecurityMiddleware.analyze_request_patterns on st = [susp, blocked, db]
analyze_request_patterns(st, client_ip, endpoint, status_code, user_agent) ==
    LET fkey == SuspKey(client_ip, "failed_login")
        failed == endpoint = "/auth/login" /\ status_code = 401
        fcount == SuspGet(st.susp, fkey) + 1
        susp1 == IF failed THEN DictSet(st.susp, fkey, fcount) ELSE st.susp
        db1 == IF failed /\ fcount >= SuspiciousLoginThreshold
               THEN log_security_event(st.db, "suspicious_login", "high", client_ip,
                                       "/auth/login", "none")
               ELSE st.db
        block == failed /\ FailedLoginBlock(fcount)
        db2 == IF block
               THEN log_security_event(db1, "ip_blocked", "critical", client_ip,
                                       "none", "blocked")
               ELSE db1
        nkey == SuspKey(client_ip, "404s")
        ncount == SuspGet(susp1, nkey) + 1
        susp2 == IF status_code = 404 THEN DictSet(susp1, nkey, ncount) ELSE susp1
        db3 == IF status_code = 404 /\ ScanSuspected(ncount)
               THEN log_security_event(db2, "potential_scanning", "medium", client_ip,
                                       endpoint, "none")
               ELSE db2
        db4 == IF user_agent \in SuspiciousAgents
               THEN log_security_event(db3, "suspicious_user_agent", "low", client_ip,
                                       endpoint, "none")
               ELSE db3
    IN  [susp |-> susp2,
         blocked |-> IF block THEN st.blocked \cup {client_ip} ELSE st.blocked,
         db |-> db4]

\* SecurityMiddleware.log_api_request: the audit_logs row
AuditRow_ServerErrors(client_ip, endpoint, status_code) ==
    [action |-> "api_call", endpoint |-> endpoint, source_ip |-> client_ip,
     status_code |-> status_code,
     success |-> IF status_code < 500 THEN "true" ELSE "false"]
AuditRow(client_ip, endpoint, status_code) ==
    [action |-> "api_call", endpoint |-> endpoint, source_ip |-> client_ip,
     status_code |-> status_code,
     success |-> IF status_code < 400 THEN "true" ELSE "false"]

\* SecurityMiddleware.reset_rate_limits
PruneOld(times, current_time) ==
    SelectSeq(times, LAMBDA req_time : current_time - req_time < KeepSeconds)

ResetStorage(storage, current_time) ==
    LET kept == [k \in DOMAIN storage |-> PruneOld(storage[k], current_time)]
    IN  DictDel(kept, {k \in DOMAIN kept : kept[k] = <<>>})

Max0(x) == IF x < 0 THEN 0 ELSE x

DecaySuspicion(susp) ==
    LET dec == [k \in DOMAIN susp |-> Max0(susp[k] - 1)]
    IN  DictDel(dec, {k \in DOMAIN dec : dec[k] = 0})

\* a variant that leaves model_trained as it was when the rows are too few
train_model_KeepFlag(t, rows, version) ==
    IF rows < MinTrainingRows
    THEN t
    ELSE [model_trained |-> TRUE, scaler |-> version, model |-> version,
          training_scores |-> version]

\* AnomalyDetector.train_model with rows readings of the trailing 30 days;
\* version names the fit that produced scaler, model and training_scores.
train_model(t, rows, version) ==
    IF rows < MinTrainingRows
    THEN [t EXCEPT !.model_trained = FALSE]
    ELSE [model_trained |-> TRUE, scaler |-> version, model |-> version,
          training_scores |-> version]

----
\* The state after construction: SecurityMiddleware.__init__,
\* AnomalyDetector.__init__, and a database whose security tables are empty.
\* The sensor_data table may hold rows of earlier runs (old_rows).
MaxOldRows == 99
MaxTrainings == 2

NoResponse == [client |-> "none", endpoint |-> "none", status |-> 0,
               reading |-> 0, from |-> "none", detect_failed |-> FALSE]
NoTrainer == [pc |-> "idle", version |-> 0]
NoInference == [pc |-> "idle", scaler |-> -1, model |-> -1, decision |-> -1,
                scores |-> -1]
NoMaintenance == [pc |-> "idle", runs |-> 0, current_time |-> 0, keys |-> {},
                  key |-> <<>>, times |-> <<>>, count |-> 0]

InitProcess ==
    /\ now = 0
    /\ rate_limit_storage = << >>
    /\ blocked_ips = {}
    /\ suspicious_activities = << >>
    /\ security_events = EmptyBag
    /\ threat_alerts = EmptyBag
    /\ audit_logs = EmptyBag
    /\ sensor_data = << >>
    /\ trained = [model_trained |-> FALSE, scaler |-> 0, model |-> 0, training_scores |-> 0]
    /\ inflight = EmptyBag
    /\ resp = NoResponse
    /\ admitted = << >>
    /\ trainer = NoTrainer
    /\ infer = NoInference
    /\ maint = NoMaintenance

Init ==
    /\ InitProcess
    /\ old_rows = 0

Request(client_ip, endpoint, user_agent) ==
    [client |-> client_ip, endpoint |-> endpoint, agent |-> user_agent,
     stage |-> "handler", status |-> 0, reading |-> 0, detect_failed |-> FALSE]

Response(client_ip, endpoint, status, reading, from) ==
    [client |-> client_ip, endpoint |-> endpoint, status |-> status,
     reading |-> reading, from |-> from, detect_failed |-> FALSE]

InFlightCount == BagCardinality(inflight)

\* "if client_ip in self.blocked_ips", the first check of dispatch
IsBlocked_Skipped(client_ip) == FALSE
IsBlocked(client_ip) == client_ip \in blocked_ips

\* the event dispatch logs for a rate-limited request
RateLimitEvent_High(db, client_ip, endpoint) ==
    log_security_event(db, "rate_limit_exceeded", "high", client_ip, endpoint, "none")
RateLimitEvent(db, client_ip, endpoint) ==
    log_security_event(db, "rate_limit_exceeded", "medium", client_ip, endpoint, "none")

\* "if self.is_rate_limited(...): ... return JSONResponse(429)" comes before
\* "response = await call_next(request)": a limited request is not passed on
call_next_Always(requests, limited, request) == requests (+) SetToBag({request})
call_next(requests, limited, request) ==
    IF limited THEN requests ELSE requests (+) SetToBag({request})

\* dispatch from its first statement to "response = await call_next(request)",
\* one step of the event loop
dispatch(client_ip, endpoint, user_agent) ==
    /\ IF IsBlocked(client_ip)
       THEN /\ resp' = Response(client_ip, endpoint, 403, 0, "interceptor")
            /\ UNCHANGED <<rate_limit_storage, blocked_ips, suspicious_activities,
                           security_events, threat_alerts, inflight, admitted>>
       ELSE LET r == is_rate_limited(
                        [storage |-> rate_limit_storage, susp |-> suspicious_activities,
                         blocked |-> blocked_ips,
                         db |-> [events |-> security_events, alerts |-> threat_alerts]],
                        client_ip, endpoint, now)
                db == RateLimitEvent(r.db, client_ip, endpoint)
            IN  /\ rate_limit_storage' = r.storage
                /\ suspicious_activities' = r.susp
                /\ blocked_ips' = r.blocked
                /\ IF r.limited
                   THEN /\ security_events' = db.events
                        /\ threat_alerts' = db.alerts
                        /\ resp' = Response(client_ip, endpoint, 429, 0, "interceptor")
                        /\ inflight' = call_next(inflight, TRUE,
                                                 Request(client_ip, endpoint, user_agent))
                        /\ UNCHANGED admitted
                   ELSE /\ security_events' = r.db.events
                        /\ threat_alerts' = r.db.alerts
                        /\ inflight' = call_next(inflight, FALSE,
                                                 Request(client_ip, endpoint, user_agent))
                        /\ admitted' = DictSet(admitted, RateKey(client_ip, endpoint),
                                Append(StorageGet(admitted, RateKey(client_ip, endpoint)), now))
                        /\ UNCHANGED resp
    /\ UNCHANGED <<now, audit_logs, sensor_data, old_rows, trained, trainer, infer, maint>>

\* dispatch up to "response = await call_next(request)", with at most
\* MaxInFlight requests waiting for their handlers
DispatchPre(client_ip, endpoint, user_agent) ==
    /\ InFlightCount < MaxInFlight
    /\ dispatch(client_ip, endpoint, user_agent)

Handled(r, status, reading, detect_failed) ==
    inflight' = (inflight (-) SetToBag({r})) (+)
                SetToBag({[r EXCEPT !.stage = "post", !.status = status,
                                    !.reading = reading,
                                    !.detect_failed = detect_failed]})

\* routes/auth.py login_user: 401 for bad credentials
HandleLogin(r, status) ==
    /\ r \in BagToSet(inflight)
    /\ r.stage = "handler"
    /\ r.endpoint = "/auth/login"
    /\ status \in {200, 401}
    /\ Handled(r, status, 0, FALSE)
    /\ UNCHANGED <<now, rate_limit_storage, blocked_ips, suspicious_activities,
                   security_events, threat_alerts, audit_logs, sensor_data, old_rows,
                   trained, resp, admitted, trainer, infer, maint>>

\* any other route: found or not
HandleOther(r, status) ==
    /\ r \in BagToSet(inflight)
    /\ r.stage = "handler"
    /\ r.endpoint \notin {"/auth/login", "/sensor/add", "/security/analyze-sensor"}
    /\ status \in {200, 404}
    /\ Handled(r, status, 0, FALSE)
    /\ UNCHANGED <<now, rate_limit_storage, blocked_ips, suspicious_activities,
                   security_events, threat_alerts, audit_logs, sensor_data, old_rows,
                   trained, resp, admitted, trainer, infer, maint>>

\* routes/sensor.py create_sensor_data
HandleSensorAdd(r, sensor_id, temperature, humidity, prediction, fail_at) ==
    /\ r \in BagToSet(inflight)
    /\ r.stage = "handler"
    /\ r.endpoint = "/sensor/add"
    /\ \E recent_readings \in RecentChoices(
              Append(sensor_data, SensorRow(sensor_id, temperature, humidity, now)),
              Len(sensor_data) + 1, now) :
         LET out == create_sensor_data(
                        sensor_data, [events |-> security_events, alerts |-> threat_alerts],
                        trained.model_trained, sensor_id, temperature, humidity,
                        r.client, now, recent_readings, prediction, fail_at)
         IN  /\ sensor_data' = out.data
             /\ security_events' = out.db.events
             /\ threat_alerts' = out.db.alerts
             /\ Handled(r, out.status, out.reading, out.detect_failed)
    /\ UNCHANGED <<now, rate_limit_storage, blocked_ips, suspicious_activities,
                   audit_logs, old_rows, trained, resp, admitted,
                   trainer, infer, maint>>

\* routes/security.py analyze_sensor_for_anomalies behind the interceptor; an
\* exception of the handler leaves dispatch at "await call_next(request)"
HandleAnalyzeSensor(r, sensor_id, prediction) ==
    /\ r \in BagToSet(inflight)
    /\ r.stage = "handler"
    /\ r.endpoint = "/security/analyze-sensor"
    /\ \E recent_data \in RecentData(sensor_data, sensor_id),
          pattern_readings \in HourReadings(sensor_data, sensor_id, now) :
         \E reading_anomalies \in AnalyzeReadings(sensor_data, trained.model_trained,
                                                  recent_data, Len(recent_data), now,
                                                  prediction) :
            LET out == analyze_sensor_for_anomalies(
                           sensor_data, [events |-> security_events, alerts |-> threat_alerts],
                           trained.model_trained, sensor_id, recent_data,
                           reading_anomalies, pattern_readings, prediction)
            IN  /\ security_events' = out.db.events
                /\ threat_alerts' = out.db.alerts
                /\ IF out.status = 500
                   THEN /\ inflight' = inflight (-) SetToBag({r})
                        /\ resp' = Response(r.client, r.endpoint, 500, 0, "handler")
                   ELSE /\ Handled(r, out.status, 0, FALSE)
                        /\ UNCHANGED resp
    /\ UNCHANGED <<now, rate_limit_storage, blocked_ips, suspicious_activities,
                   audit_logs, sensor_data, old_rows, trained, admitted,
                   trainer, infer, maint>>

\* dispatch after call_next: log_api_request, analyze_request_patterns, return
DispatchPost(r) ==
    /\ r \in BagToSet(inflight)
    /\ r.stage = "post"
    /\ LET a == analyze_request_patterns(
                    [susp |-> suspicious_activities, blocked |-> blocked_ips,
                     db |-> [events |-> security_events, alerts |-> threat_alerts]],
                    r.client, r.endpoint, r.status, r.agent)
       IN  /\ audit_logs' = audit_logs (+) SetToBag({AuditRow(r.client, r.endpoint, r.status)})
           /\ suspicious_activities' = a.susp
           /\ blocked_ips' = a.blocked
           /\ security_events' = a.db.events
           /\ threat_alerts' = a.db.alerts
    /\ inflight' = inflight (-) SetToBag({r})
    /\ resp' = [Response(r.client, r.endpoint, r.status, r.reading, "handler")
                EXCEPT !.detect_failed = r.detect_failed]
    /\ UNCHANGED <<now, rate_limit_storage, sensor_data, old_rows, trained, admitted,
                   trainer, infer, maint>>

\* time passes
Tick(t) ==
    /\ t > now
    /\ now' = t
    /\ UNCHANGED <<rate_limit_storage, blocked_ips, suspicious_activities,
                   security_events, threat_alerts, audit_logs, sensor_data, old_rows,
                   trained, inflight, resp, admitted, trainer, infer, maint>>

\* reset_rate_limits has no statement on self.blocked_ips: the block list after
\* the counters susp have decayed is the block list before
BlockedAfterReset_Decayed(blocked, susp) ==
    {c \in blocked : \/ TooManyViolations(SuspGet(susp, SuspKey(c, "")))
                     \/ FailedLoginBlock(SuspGet(susp, SuspKey(c, "failed_login")))}
BlockedAfterReset(blocked, susp) == blocked

\* reset_rate_limits called on the event loop (one step)
Maintenance ==
    /\ maint.pc = "idle"
    /\ maint.runs < MaxMaintenance
    /\ maint' = [maint EXCEPT !.runs = @ + 1]
    /\ rate_limit_storage' = ResetStorage(rate_limit_storage, now)
    /\ suspicious_activities' = DecaySuspicion(suspicious_activities)
    /\ blocked_ips' = BlockedAfterReset(blocked_ips, suspicious_activities')
    /\ UNCHANGED <<now, security_events, threat_alerts, audit_logs,
                   sensor_data, old_rows, trained, inflight, resp, admitted,
                   trainer, infer>>

\* train_model called while no detection runs (one step)
TrainModel ==
    /\ trained.model < MaxTrainings
    /\ trained' = train_model(trained, old_rows + Len(sensor_data), trained.model + 1)
    /\ trained' # trained
    /\ UNCHANGED <<now, rate_limit_storage, blocked_ips, suspicious_activities,
                   security_events, threat_alerts, audit_logs, sensor_data, old_rows,
                   inflight, resp, admitted, trainer, infer, maint>>

\* reset_rate_limits called from a thread of its own: the event loop runs whole
\* request steps between any two of its reads and writes. runs counts the calls
\* started. The keys of a snapshot are visited in any order.
MaintFrame ==
    UNCHANGED <<now, blocked_ips, security_events, threat_alerts, audit_logs,
                sensor_data, old_rows, trained, inflight, resp, admitted,
                trainer, infer>>

\* "current_time = time.time()" and "list(self.rate_limit_storage.keys())"
MaintStart ==
    /\ maint.pc = "idle"
    /\ maint.runs < MaxMaintenance
    /\ maint' = [maint EXCEPT !.pc = "rate", !.runs = @ + 1, !.current_time = now,
                              !.keys = DOMAIN rate_limit_storage]
    /\ UNCHANGED <<rate_limit_storage, suspicious_activities>>
    /\ MaintFrame

\* the list comprehension over self.rate_limit_storage[key]
MaintRateRead(k) ==
    /\ maint.pc = "rate"
    /\ k \in maint.keys
    /\ maint' = [maint EXCEPT !.pc = "rate_write", !.key = k,
                    !.times = PruneOld(StorageGet(rate_limit_storage, k), maint.current_time)]
    /\ UNCHANGED <<rate_limit_storage, suspicious_activities>>
    /\ MaintFrame

\* "self.rate_limit_storage[key] = [...]"
MaintRateWrite ==
    /\ maint.pc = "rate_write"
    /\ rate_limit_storage' = DictSet(rate_limit_storage, maint.key, maint.times)
    /\ maint' = [maint EXCEPT !.pc = "rate_check"]
    /\ UNCHANGED suspicious_activities
    /\ MaintFrame

\* "if not self.rate_limit_storage[key]"
MaintRateCheck ==
    /\ maint.pc = "rate_check"
    /\ maint' = IF StorageGet(rate_limit_storage, maint.key) = <<>>
                THEN [maint EXCEPT !.pc = "rate_del"]
                ELSE [maint EXCEPT !.pc = "rate", !.keys = @ \ {maint.key}]
    /\ UNCHANGED <<rate_limit_storage, suspicious_activities>>
    /\ MaintFrame

\* "del self.rate_limit_storage[key]"
MaintRateDel ==
    /\ maint.pc = "rate_del"
    /\ rate_limit_storage' = DictDel(rate_limit_storage, {maint.key})
    /\ maint' = [maint EXCEPT !.pc = "rate", !.keys = @ \ {maint.key}]
    /\ UNCHANGED suspicious_activities
    /\ MaintFrame

\* end of the first loop, "list(self.suspicious_activities.keys())"
MaintRateDone ==
    /\ maint.pc = "rate"
    /\ maint.keys = {}
    /\ maint' = [maint EXCEPT !.pc = "susp", !.keys = DOMAIN suspicious_activities]
    /\ UNCHANGED <<rate_limit_storage, suspicious_activities>>
    /\ MaintFrame

\* "max(0, self.suspicious_activities[key] - 1)"
MaintSuspRead(k) ==
    /\ maint.pc = "susp"
    /\ k \in maint.keys
    /\ maint' = [maint EXCEPT !.pc = "susp_write", !.key = k,
                              !.count = Max0(SuspGet(suspicious_activities, k) - 1)]
    /\ UNCHANGED <<rate_limit_storage, suspicious_activities>>
    /\ MaintFrame

\* "self.suspicious_activities[key] = ..."
MaintSuspWrite ==
    /\ maint.pc = "susp_write"
    /\ suspicious_activities' = DictSet(suspicious_activities, maint.key, maint.count)
    /\ maint' = [maint EXCEPT !.pc = "susp_check"]
    /\ UNCHANGED rate_limit_storage
    /\ MaintFrame

\* "if self.suspicious_activities[key] == 0"
MaintSuspCheck ==
    /\ maint.pc = "susp_check"
    /\ maint' = IF SuspGet(suspicious_activities, maint.key) = 0
                THEN [maint EXCEPT !.pc = "susp_del"]
                ELSE [maint EXCEPT !.pc = "susp", !.keys = @ \ {maint.key}]
    /\ UNCHANGED <<rate_limit_storage, suspicious_activities>>
    /\ MaintFrame

\* "del self.suspicious_activities[key]"
MaintSuspDel ==
    /\ maint.pc = "susp_del"
    /\ suspicious_activities' = DictDel(suspicious_activities, {maint.key})
    /\ maint' = [maint EXCEPT !.pc = "susp", !.keys = @ \ {maint.key}]
    /\ UNCHANGED rate_limit_storage
    /\ MaintFrame

\* reset_rate_limits returns
MaintDone ==
    /\ maint.pc = "susp"
    /\ maint.keys = {}
    /\ maint' = [maint EXCEPT !.pc = "idle"]
    /\ UNCHANGED <<rate_limit_storage, suspicious_activities>>
    /\ MaintFrame

\* train_model running in a thread, one statement at a time; version names the
\* fit in progress. The handlers of requests run in threads of a pool, so a
\* detection call runs between any two of these statements.
TrainFrame ==
    UNCHANGED <<now, rate_limit_storage, blocked_ips, suspicious_activities,
                security_events, threat_alerts, audit_logs, sensor_data, old_rows,
                inflight, resp, admitted, maint>>

\* "historical_data = ...", "if len(historical_data) < 100"
TrainStart ==
    /\ trainer.pc = "idle"
    /\ trainer.version < MaxTrainings
    /\ IF old_rows + Len(sensor_data) < MinTrainingRows
       THEN /\ trained' = [trained EXCEPT !.model_trained = FALSE]
            /\ trainer' = [trainer EXCEPT !.version = @ + 1]
       ELSE /\ trainer' = [pc |-> "scaler", version |-> trainer.version + 1]
            /\ UNCHANGED trained
    /\ UNCHANGED infer
    /\ TrainFrame

\* "self.scaler.fit(features)"
TrainScaler ==
    /\ trainer.pc = "scaler"
    /\ trained' = [trained EXCEPT !.scaler = trainer.version]
    /\ trainer' = [trainer EXCEPT !.pc = "model"]
    /\ UNCHANGED infer
    /\ TrainFrame

\* "self.model.fit(scaled_features)"
TrainFit ==
    /\ trainer.pc = "model"
    /\ trained' = [trained EXCEPT !.model = trainer.version]
    /\ trainer' = [trainer EXCEPT !.pc = "scores"]
    /\ UNCHANGED infer
    /\ TrainFrame

\* "self.training_scores = self.model.decision_function(scaled_features)"
TrainScores ==
    /\ trainer.pc = "scores"
    /\ trained' = [trained EXCEPT !.training_scores = trained.model]
    /\ trainer' = [trainer EXCEPT !.pc = "publish"]
    /\ UNCHANGED infer
    /\ TrainFrame

\* "self.model_trained = True"
TrainPublish ==
    /\ trainer.pc = "publish"
    /\ trained' = [trained EXCEPT !.model_trained = TRUE]
    /\ trainer' = [trainer EXCEPT !.pc = "idle"]
    /\ UNCHANGED infer
    /\ TrainFrame

\* detect_sensor_anomalies in a handler's thread: "if not self.model_trained"
\* sends the call to the rules, which read nothing of the model.
InferStart ==
    /\ infer.pc \in {"idle", "done"}
    /\ infer' = IF trained.model_trained
                THEN [NoInference EXCEPT !.pc = "scale"]
                ELSE NoInference
    /\ UNCHANGED <<trained, trainer>>
    /\ TrainFrame

\* "scaled_features = self.scaler.transform(features)"
InferScale ==
    /\ infer.pc = "scale"
    /\ infer' = [infer EXCEPT !.pc = "predict", !.scaler = trained.scaler]
    /\ UNCHANGED <<trained, trainer>>
    /\ TrainFrame

\* "prediction = self.model.predict(scaled_features)"
InferPredict(prediction) ==
    /\ infer.pc = "predict"
    /\ infer' = [infer EXCEPT !.pc = IF prediction = -1 THEN "decision" ELSE "done",
                              !.model = trained.model]
    /\ UNCHANGED <<trained, trainer>>
    /\ TrainFrame

\* "score = self.model.decision_function(scaled_features)[0]"
InferDecision ==
    /\ infer.pc = "decision"
    /\ infer' = [infer EXCEPT !.pc = "score", !.decision = trained.model]
    /\ UNCHANGED <<trained, trainer>>
    /\ TrainFrame

\* "anomaly_scores = self.training_scores[self.training_scores < 0]"
InferScore ==
    /\ infer.pc = "score"
    /\ infer' = [infer EXCEPT !.pc = "done", !.scores = trained.training_scores]
    /\ UNCHANGED <<trained, trainer>>
    /\ TrainFrame

\* Traffic on the login route and on a route without a rate limit of its own.
\* One client hammers the login route with wrong credentials and visits another
\* route; a second client visits the other route only.
TrafficRequests == {<<"10.0.0.1", "/auth/login">>, <<"10.0.0.1", "/other">>,
                    <<"10.0.0.2", "/other">>}
TrafficAgents == {"Mozilla"}

\* the requests that got past the block list so far: the answered ones left an
\* audit_logs row or a rate_limit_exceeded event, the others are in flight
RequestsSeen ==
    BagCardinality(audit_logs) + BagCardinality(inflight)
    + BagCardinality([e \in {x \in BagToSet(security_events) :
                               x.event_type = "rate_limit_exceeded"}
                      |-> security_events[e]])

\* requests admitted so far on the route without a limit of its own
RECURSIVE OtherAdmittedOf(_)
OtherAdmittedOf(clients) ==
    IF clients = {} THEN 0
    ELSE LET c == CHOOSE x \in clients : TRUE
         IN  Len(StorageGet(admitted, RateKey(c, "/other"))) + OtherAdmittedOf(clients \ {c})
OtherAdmitted == OtherAdmittedOf(Clients)

Next ==
    \/ \E q \in TrafficRequests, a \in TrafficAgents :
          /\ q[1] \in blocked_ips \/ RequestsSeen < MaxRequests
          /\ q[2] = "/auth/login" \/ q[1] \in blocked_ips \/ OtherAdmitted < MaxOther
          /\ inflight = EmptyBag
          /\ DispatchPre(q[1], q[2], a)
    \/ \E r \in BagToSet(inflight) : HandleLogin(r, 401)
    \/ \E r \in BagToSet(inflight) : HandleOther(r, 200)
    \/ \E r \in BagToSet(inflight) : DispatchPost(r)
    \/ \E t \in TimePoints : Tick(t)
    \/ Maintenance

Spec == Init /\ [][Next]_vars

\* One client on two routes with different limits, long enough to exceed the
\* limit of the route that has none of its own.
MaxMixRequests == 110
MixClient == "10.0.0.1"
MixEndpoints == {"/auth/login", "/other"}

NextMix ==
    \/ \E e \in MixEndpoints :
          /\ MixClient \in blocked_ips \/ RequestsSeen < MaxMixRequests
          /\ inflight = EmptyBag
          /\ DispatchPre(MixClient, e, "Mozilla")
    \/ \E r \in BagToSet(inflight) : HandleLogin(r, 200)
    \/ \E r \in BagToSet(inflight) : HandleOther(r, 200)
    \/ \E r \in BagToSet(inflight) : DispatchPost(r)
    \/ Maintenance

SpecMix == Init /\ [][NextMix]_vars

\* Ingestion: one client posts readings; the model may be trained in between.
MaxIngest == 3
IngestClient == "10.0.0.1"
IngestTimes == {0, 60}

NextIngest ==
    \/ \E a \in TrafficAgents :
          /\ RequestsSeen < MaxIngest
          /\ InFlightCount < MaxInFlight
          /\ DispatchPre(IngestClient, "/sensor/add", a)
    \/ \E r \in BagToSet(inflight), sid \in Sensors, t \in Temps, h \in Hums,
          p \in Predictions, f \in FailPoints : HandleSensorAdd(r, sid, t, h, p, f)
    \/ \E r \in BagToSet(inflight) : DispatchPost(r)
    \/ \E t \in IngestTimes : Tick(t)
    \/ TrainModel

InitIngest ==
    /\ InitProcess
    /\ old_rows \in {0, MaxOldRows}

SpecIngest == InitIngest /\ [][NextIngest]_vars

\* Maintenance in a thread of its own while one client hammers the login route
\* with valid credentials.
MaxConcRequests == 7
ConcClient == "10.0.0.1"
ConcTimes == {0, 3600}

NextConc ==
    \/ /\ ConcClient \in blocked_ips \/ RequestsSeen < MaxConcRequests
       /\ DispatchPre(ConcClient, "/auth/login", "Mozilla")
    \/ \E r \in BagToSet(inflight) : HandleLogin(r, 200)
    \/ \E r \in BagToSet(inflight) : DispatchPost(r)
    \/ \E t \in ConcTimes : Tick(t)
    \/ MaintStart
    \/ \E k \in maint.keys : MaintRateRead(k)
    \/ MaintRateWrite
    \/ MaintRateCheck
    \/ MaintRateDel
    \/ MaintRateDone
    \/ \E k \in maint.keys : MaintSuspRead(k)
    \/ MaintSuspWrite
    \/ MaintSuspCheck
    \/ MaintSuspDel
    \/ MaintDone

SpecConc == Init /\ [][NextConc]_vars

\* Training in a thread while handlers call the detector.
TrainRows == {99, 100}

NextTrain ==
    \/ TrainStart
    \/ TrainScaler
    \/ TrainFit
    \/ TrainScores
    \/ TrainPublish
    \/ InferStart
    \/ InferScale
    \/ \E p \in Predictions : InferPredict(p)
    \/ InferDecision
    \/ InferScore

InitTrain ==
    /\ InitProcess
    /\ old_rows \in TrainRows

SpecTrain == InitTrain /\ [][NextTrain]_vars

----
\* Counting rows of the tables.
RECURSIVE BagCount(_, _)
BagCount(bag, rows) ==
    IF rows = {} THEN 0
    ELSE LET x == CHOOSE y \in rows : TRUE
         IN  bag[x] + BagCount(bag, rows \ {x})

EventCount(events, event_type, severity, source_ip) ==
    BagCount(events, {e \in BagToSet(events) : /\ e.event_type = event_type
                                               /\ e.severity = severity
                                               /\ e.source_ip = source_ip})

AlertCount(alerts, alert_type, threat_level, source_ip, action_taken) ==
    BagCount(alerts, {a \in BagToSet(alerts) : /\ a.alert_type = alert_type
                                               /\ a.threat_level = threat_level
                                               /\ a.source_ip = source_ip
                                               /\ a.action_taken = action_taken})

\* rate-limit violations of a client recorded so far, on any endpoint
Violations(events, client_ip) ==
    EventCount(events, "rate_limit_exceeded", "medium", client_ip)

\* the number of entries of a list of timestamps that are later than cutoff
LaterThan(times, cutoff) == Cardinality({i \in DOMAIN times : times[i] > cutoff})

\* a step of dispatch up to call_next for a client that is not blocked
RateCheck(c, e, a) == DispatchPre(c, e, a) /\ c \notin blocked_ips

----
\* C1: rate limiting of one client on one endpoint with limit L and window W.
\* A request of a client that is not blocked is admitted when fewer than L of
\* its requests on that endpoint were admitted in the W seconds before it
\* (the first L requests of a window; any request once the window has elapsed)
\* and is answered 429 when L were admitted in those W seconds.
C1_RateLimit ==
    [][\A c \in Clients, e \in Endpoints, a \in Agents :
          RateCheck(c, e, a) =>
              LET L == rate_limits(e).limit
                  W == rate_limits(e).window
                  n == LaterThan(StorageGet(admitted, RateKey(c, e)), now - W)
              IN  /\ n < L => /\ inflight' = inflight (+) SetToBag({Request(c, e, a)})
                              /\ resp' = resp
                  /\ n >= L => /\ resp' = Response(c, e, 429, 0, "interceptor")
                               /\ inflight' = inflight]_vars

\* C1 witness: L requests were admitted, one was rejected, and one more was
\* admitted after the window had elapsed.
C1_Witness ==
    \E c \in Clients :
        /\ Len(StorageGet(admitted, RateKey(c, "/auth/login"))) = LoginLimit + 1
        /\ Violations(security_events, c) >= 1
        /\ now >= LoginWindow

\* C2 as stated: a client with 5 rate-limit violations, however spaced in time,
\* is in the block list.
C2_BlockedAfterFiveViolations ==
    \A c \in Clients :
        Violations(security_events, c) >= BlockThreshold => c \in blocked_ips

\* C2 amended: a client with 5 rate-limit violations more than there were
\* maintenance runs (each run takes one off its counter) is in the block list,
\* stays there, and every later request from it is answered 403 on every
\* endpoint.
C2_Blocking ==
    [][\A c \in Clients :
          /\ Violations(security_events', c) >= BlockThreshold + maint'.runs
                => c \in blocked_ips'
          /\ c \in blocked_ips =>
                /\ c \in blocked_ips'
                /\ \A e \in Endpoints, a \in Agents :
                      DispatchPre(c, e, a) =>
                          resp' = Response(c, e, 403, 0, "interceptor")]_vars

\* C2 witness: a client that exceeded the limits of two routes, 5 times in
\* all, is blocked and was just refused with 403.
C2_Witness ==
    \E c \in Clients, e \in Endpoints :
        /\ Violations(security_events, c) = BlockThreshold
        /\ \E v \in BagToSet(security_events) :
              /\ v.event_type = "rate_limit_exceeded" /\ v.source_ip = c
              /\ v.endpoint = "/auth/login"
        /\ \E v \in BagToSet(security_events) :
              /\ v.event_type = "rate_limit_exceeded" /\ v.source_ip = c
              /\ v.endpoint = "/other"
        /\ c \in blocked_ips
        /\ resp = Response(c, e, 403, 0, "interceptor")

\* C3: a request of a blocked client is answered 403, is not passed to the
\* handler and leaves the rate-window counters, the suspicion counters and the
\* block list unchanged.
C3_BlockedFirst ==
    [][\A c \in Clients, e \in Endpoints, a \in Agents :
          (DispatchPre(c, e, a) /\ c \in blocked_ips) =>
              /\ resp' = Response(c, e, 403, 0, "interceptor")
              /\ inflight' = inflight
              /\ UNCHANGED <<rate_limit_storage, suspicious_activities, blocked_ips,
                             security_events, threat_alerts, audit_logs>>]_vars

\* C3 witness: a blocked client whose login counter is at its limit was refused
\* with 403.
C3_Witness ==
    \E c \in Clients :
        /\ c \in blocked_ips
        /\ resp.status = 403 /\ resp.client = c /\ resp.endpoint = "/auth/login"
        /\ Len(StorageGet(rate_limit_storage, RateKey(c, "/auth/login"))) >= LoginLimit

\* C4: a rate-limit check of a client that is not blocked prunes the counter to
\* the window and then either (count >= limit) answers 429, adds one to the
\* client's violation counter, logs one rate_limit_exceeded event of severity
\* medium and appends no timestamp, or (count < limit) appends the timestamp,
\* leaves the violation counter alone and passes the request to the handler.
C4_CheckEffect ==
    [][\A c \in Clients, e \in Endpoints, a \in Agents :
          RateCheck(c, e, a) =>
              LET key == RateKey(c, e)
                  old == StorageGet(rate_limit_storage, key)
                  cutoff == now - rate_limits(e).window
                  kept == LaterThan(old, cutoff)
                  new == rate_limit_storage'[key]
                  skey == SuspKey(c, "")
              IN  /\ key \in DOMAIN rate_limit_storage'
                  /\ \A k \in DOMAIN rate_limit_storage \ {key} :
                        /\ k \in DOMAIN rate_limit_storage'
                        /\ rate_limit_storage'[k] = rate_limit_storage[k]
                  /\ IF kept >= rate_limits(e).limit
                     THEN /\ resp' = Response(c, e, 429, 0, "interceptor")
                          /\ inflight' = inflight
                          /\ Len(new) = kept
                          /\ \A i \in DOMAIN new : new[i] > cutoff
                          /\ SuspGet(suspicious_activities', skey)
                                = SuspGet(suspicious_activities, skey) + 1
                          /\ Violations(security_events', c)
                                = Violations(security_events, c) + 1
                     ELSE /\ resp' = resp
                          /\ inflight' = inflight (+) SetToBag({Request(c, e, a)})
                          /\ Len(new) = kept + 1
                          /\ new[Len(new)] = now
                          /\ \A i \in 1..kept : new[i] > cutoff
                          /\ suspicious_activities' = suspicious_activities
                          /\ security_events' = security_events]_vars

\* C4 witness: both outcomes happened; the counter of the rejected endpoint is
\* full and the client has a violation.
C4_Witness ==
    \E c \in Clients :
        /\ resp = Response(c, "/auth/login", 429, 0, "interceptor")
        /\ SuspGet(suspicious_activities, SuspKey(c, "")) = 1
        /\ Len(StorageGet(rate_limit_storage, RateKey(c, "/auth/login"))) = LoginLimit
        /\ Violations(security_events, c) = 1

\* C5: in the step in which a client's violation counter reaches 5 the client
\* is added to the block list, one ip_blocked event of severity high is logged
\* and one threat alert with action_taken "blocked" and the client's address is
\* created.
C5_BlockOnFifth ==
    [][\A c \in Clients :
          (/\ SuspGet(suspicious_activities, SuspKey(c, "")) < BlockThreshold
           /\ SuspGet(suspicious_activities', SuspKey(c, "")) >= BlockThreshold) =>
              /\ c \in blocked_ips'
              /\ EventCount(security_events', "ip_blocked", "high", c)
                    = EventCount(security_events, "ip_blocked", "high", c) + 1
              /\ AlertCount(threat_alerts', "ip_blocked", "high", c, "blocked")
                    = AlertCount(threat_alerts, "ip_blocked", "high", c, "blocked") + 1]_vars

\* C5 witness: the counter is at 5 and the client is blocked with its event and alert.
C5_Witness ==
    \E c \in Clients :
        /\ SuspGet(suspicious_activities, SuspKey(c, "")) = BlockThreshold
        /\ c \in blocked_ips
        /\ EventCount(security_events, "ip_blocked", "high", c) = 1
        /\ AlertCount(threat_alerts, "ip_blocked", "high", c, "blocked") = 1

----
\* threat alerts that correspond to the security events of one type, severity
\* and source address, with an action recorded
AlertsFor(alerts, event_type, severity, source_ip) ==
    BagCount(alerts, {a \in BagToSet(alerts) : /\ a.alert_type = event_type
                                               /\ a.threat_level = severity
                                               /\ a.source_ip = source_ip
                                               /\ a.action_taken # "none"})

\* C6: every persisted security event of severity critical or high has exactly
\* one threat alert with the same source address and an action taken, and no
\* event of severity low or medium has one, whichever logger wrote the event.
C6_Escalation ==
    /\ \A e \in BagToSet(security_events) :
          e.severity \in {"critical", "high"} =>
              AlertsFor(threat_alerts, e.event_type, e.severity, e.source_ip)
                  = EventCount(security_events, e.event_type, e.severity, e.source_ip)
    /\ \A a \in BagToSet(threat_alerts) : a.threat_level \in {"critical", "high"}

\* the anomaly events of the table
AnomalyEvents == {e \in BagToSet(security_events) : e.event_type = "anomaly"}

\* C7: the handler has stored the reading (50.0, 50.0) as the first row of the
\* table while no model had been trained, and detection raised nothing: there
\* is exactly one anomaly event, critical_temperature_high with confidence 0.95
\* and severity critical, and one threat alert derived from it.
C7_EndToEnd ==
    \A r \in BagToSet(inflight) :
        (/\ r.stage = "post" /\ r.reading = 1 /\ ~r.detect_failed
         /\ Len(sensor_data) = 1
         /\ sensor_data[1].temperature = 500 /\ sensor_data[1].humidity = 500
         /\ trained.model = 0) =>
            /\ AnomalyEvents = {SecurityEventRow("anomaly", "critical", r.client,
                                    sensor_data[1].sensor_id,
                                    "critical_temperature_high", 95, "none")}
            /\ BagCount(security_events, AnomalyEvents) = 1
            /\ AlertsFor(threat_alerts, "anomaly", "critical", r.client) = 1

\* C8: the counters are updated atomically under every interleaving of requests
\* and maintenance: no more than limit requests of one client on one endpoint
\* are admitted within one window, and no increment of a client's violation
\* counter is lost (the counter is at least the client's violations minus one
\* for each maintenance run started).
C8_AtomicCounters ==
    /\ \A c \in Clients, e \in Endpoints :
          LaterThan(StorageGet(admitted, RateKey(c, e)), now - rate_limits(e).window)
              <= rate_limits(e).limit
    /\ \A c \in Clients :
          SuspGet(suspicious_activities, SuspKey(c, ""))
              >= Violations(security_events, c) - maint.runs

\* C9: a detection call uses the scaler, the model and the training scores of
\* one and the same training.
C9_AtomicPublish ==
    /\ (infer.scaler # -1 /\ infer.model # -1) => infer.scaler = infer.model
    /\ infer.decision # -1 => infer.decision = infer.model
    /\ infer.scores # -1 => infer.scores = infer.model

\* C10: an exception raised inside detect_sensor_anomalies or inside
\* create_security_event_from_anomaly leaves the reading stored and the handler
\* answers 200 with the stored reading, which dispatch returns unchanged; no
\* step removes or changes a stored reading.
C10_DetectionFailureAbsorbed ==
    [][/\ \A i \in DOMAIN sensor_data :
             i \in DOMAIN sensor_data' /\ sensor_data'[i] = sensor_data[i]
       /\ \A r \in BagToSet(inflight') :
             (r.stage = "post" /\ r.detect_failed) =>
                 /\ r.status = 200
                 /\ r.reading \in DOMAIN sensor_data'
       /\ \A r \in BagToSet(inflight) :
             (DispatchPost(r) /\ r.detect_failed) =>
                 /\ resp'.status = 200
                 /\ resp'.reading \in DOMAIN sensor_data']_vars

\* C10 witness: detection of a stored reading failed and the client got 200
\* with that reading.
C10_Witness ==
    /\ resp.status = 200 /\ resp.reading \in DOMAIN sensor_data
    /\ resp.detect_failed


----
\* Validation: one client posts readings at and around the ends of the valid
\* ranges, one request at a time, while no model is trained.
MaxValidate == 2
ValidateTemps == {-501, -500, 250, 1000, 1001}
ValidateHums == {-1, 0, 500, 1000, 1001}

NextValidate ==
    \/ /\ RequestsSeen < MaxValidate
       /\ inflight = EmptyBag
       /\ DispatchPre(IngestClient, "/sensor/add", "Mozilla")
    \/ \E r \in BagToSet(inflight), sid \in Sensors, t \in ValidateTemps,
          h \in ValidateHums : HandleSensorAdd(r, sid, t, h, 1, -1)
    \/ \E r \in BagToSet(inflight) : DispatchPost(r)

SpecValidate == Init /\ [][NextValidate]_vars

\* C11: a reading with temperature outside [-50, 100] or humidity outside
\* [0, 100] is answered 400 and the handler leaves the sensor_data,
\* security_events and threat_alerts tables as they were; a reading inside both
\* ranges is not answered 400 and is stored.
C11_Validation ==
    [][\A r \in BagToSet(inflight), sid \in Sensors, t \in ValidateTemps, h \in ValidateHums :
          HandleSensorAdd(r, sid, t, h, 1, -1) =>
              IF t < -500 \/ t > 1000 \/ h < 0 \/ h > 1000
              THEN /\ sensor_data' = sensor_data
                   /\ security_events' = security_events
                   /\ threat_alerts' = threat_alerts
                   /\ \A q \in BagToSet(inflight') : q.status = 400 /\ q.reading = 0
              ELSE /\ sensor_data' = Append(sensor_data, SensorRow(sid, t, h, now))
                   /\ \A q \in BagToSet(inflight') :
                         q.status = 200 /\ q.reading = Len(sensor_data')]_vars

\* C11 witness: a reading at the ends of both ranges (100.0, 0.0) is stored,
\* with its two findings, and another request was answered 400 without leaving
\* a row or an event.
C11_Witness ==
    /\ Len(sensor_data) = 1
    /\ sensor_data[1].temperature = 1000 /\ sensor_data[1].humidity = 0
    /\ resp.endpoint = "/sensor/add" /\ resp.status = 400
    /\ BagCardinality(audit_logs) >= 2
    /\ BagCardinality(security_events) = 2


----
\* Flooding of the ingestion route: one client posts the same reading of one
\* sensor over and over, one request at a time, FloodPerSecond requests in
\* every second.
MaxFloodRequests == 66
FloodPerSecond == 2
FloodTemp == 250
FloodHum == 500

NextFlood ==
    \/ /\ \/ IngestClient \in blocked_ips
          \/ /\ RequestsSeen < MaxFloodRequests
             /\ RequestsSeen < FloodPerSecond * (now + 1)
       /\ inflight = EmptyBag
       /\ DispatchPre(IngestClient, "/sensor/add", "Mozilla")
    \/ \E r \in BagToSet(inflight), sid \in Sensors :
          HandleSensorAdd(r, sid, FloodTemp, FloodHum, 1, -1)
    \/ \E r \in BagToSet(inflight) : DispatchPost(r)
    \/ /\ RequestsSeen >= FloodPerSecond * (now + 1)
       /\ inflight = EmptyBag
       /\ Tick(now + 1)

SpecFlood == Init /\ [][NextFlood]_vars

\* requests on the ingestion route that the interceptor passed to the handler
IngestAdmitted(c) == Len(StorageGet(admitted, RateKey(c, "/sensor/add")))

\* C12: a request to the ingestion route that the interceptor answers 403 (the
\* client is blocked) or 429 (a rate-limit violation is recorded) is not passed
\* to the handler and leaves the sensor_data table as it was; the table never
\* holds more rows than requests were passed to the handler.
C12_RejectedNotPersisted ==
    [][/\ \A c \in Clients, a \in Agents :
             (/\ DispatchPre(c, "/sensor/add", a)
              /\ \/ c \in blocked_ips
                 \/ Violations(security_events', c) > Violations(security_events, c)) =>
                 /\ resp'.status \in {403, 429} /\ resp'.from = "interceptor"
                 /\ inflight' = inflight
                 /\ sensor_data' = sensor_data
       /\ Len(sensor_data') <= IngestAdmitted(IngestClient)']_vars

\* C12 witness: the client ran into the limit of the ingestion route, was
\* blocked after 5 violations and refused with 403, and the table holds fewer
\* rows than requests were admitted.
C12_Witness ==
    /\ IngestAdmitted(IngestClient) = SensorAddLimit
    /\ Violations(security_events, IngestClient) = BlockThreshold
    /\ resp = Response(IngestClient, "/sensor/add", 403, 0, "interceptor")
    /\ Len(sensor_data) < SensorAddLimit


----
\* The threshold classifier: one client posts readings at and around the
\* cutoffs of the temperature and humidity bands, one request at a time, while
\* no model is trained; time may pass between the requests.
MaxThreshold == 2
ThresholdTemps == {-100, -99, 50, 51, 250, 349, 350, 449, 450, 1000}
ThresholdHums == {500, 950}
ThresholdTimes == {0, 60}

NextThreshold ==
    \/ /\ RequestsSeen < MaxThreshold
       /\ inflight = EmptyBag
       /\ DispatchPre(IngestClient, "/sensor/add", "Mozilla")
    \/ \E r \in BagToSet(inflight), sid \in Sensors, t \in ThresholdTemps,
          h \in ThresholdHums : HandleSensorAdd(r, sid, t, h, 1, -1)
    \/ \E r \in BagToSet(inflight) : DispatchPost(r)
    \/ \E t \in ThresholdTimes : inflight = EmptyBag /\ Tick(t)

SpecThreshold == Init /\ [][NextThreshold]_vars

\* the kinds of finding of the temperature bands
TemperatureKinds ==
    {"critical_temperature_high", "critical_temperature_low",
     "high_temperature_warning", "low_temperature_warning"}

\* the first band of temperature t in the order critical_high, critical_low,
\* warning_high, warning_low
FirstTier(t) ==
    IF t >= TempCriticalHigh THEN "critical_temperature_high"
    ELSE IF t <= TempCriticalLow THEN "critical_temperature_low"
    ELSE IF t >= TempWarningHigh THEN "high_temperature_warning"
    ELSE IF t <= TempWarningLow THEN "low_temperature_warning"
    ELSE "none"

\* C13: the events written for a stored reading hold at most one temperature
\* finding, the one of the first matching band in the order critical_high,
\* critical_low, warning_high, warning_low (confidence 0.95 for the critical
\* bands, 0.75 for the warnings); for t >= 45.0 it is critical_temperature_high
\* with confidence 0.95 and there is no high_temperature_warning.
C13_TemperatureTiers ==
    [][\A r \in BagToSet(inflight), sid \in Sensors, t \in ThresholdTemps, h \in ThresholdHums :
          HandleSensorAdd(r, sid, t, h, 1, -1) =>
              LET new == security_events' (-) security_events
                  temp == {e \in BagToSet(new) : e.anomaly_type \in TemperatureKinds}
              IN  /\ BagCount(new, temp) <= 1
                  /\ FirstTier(t) = "none" => temp = {}
                  /\ FirstTier(t) # "none" =>
                        \E e \in temp :
                            /\ e.anomaly_type = FirstTier(t)
                            /\ e.sensor_id = sid
                            /\ e.confidence = IF e.severity = "critical" THEN 95 ELSE 75
                            /\ e.severity = IF t >= TempCriticalHigh \/ t <= TempCriticalLow
                                            THEN "critical" ELSE "high"
                  /\ t >= 450 =>
                        /\ \E e \in temp : /\ e.anomaly_type = "critical_temperature_high"
                                           /\ e.confidence = 95
                        /\ \A e \in temp : e.anomaly_type # "high_temperature_warning"]_vars

\* C13 witness: the reading 45.0 was stored and left one
\* critical_temperature_high event and no high_temperature_warning.
C13_Witness ==
    /\ Len(sensor_data) = 1
    /\ sensor_data[1].temperature = 450
    /\ inflight = EmptyBag
    /\ \E e \in BagToSet(security_events) :
          /\ e.anomaly_type = "critical_temperature_high" /\ e.confidence = 95
          /\ security_events[e] = 1
    /\ \A e \in BagToSet(security_events) : e.anomaly_type # "high_temperature_warning"


----
\* The trend detector: one client posts readings of one sensor, one request at
\* a time and each later than the one before, while no model is trained.
MaxTrend == 8
MaxTrendTime == 701
TrendTemps == {200, 350, 351}
TrendHum == 500
TrendSteps == {100, 601}

NextTrend ==
    \/ /\ RequestsSeen < MaxTrend
       /\ inflight = EmptyBag
       /\ \A i \in DOMAIN sensor_data : sensor_data[i].timestamp < now
       /\ DispatchPre(IngestClient, "/sensor/add", "Mozilla")
    \/ \E r \in BagToSet(inflight), sid \in Sensors, t \in TrendTemps :
          HandleSensorAdd(r, sid, t, TrendHum, 1, -1)
    \/ \E r \in BagToSet(inflight) : DispatchPost(r)
    \/ \E d \in TrendSteps :
          /\ inflight = EmptyBag
          /\ \E i \in DOMAIN sensor_data : sensor_data[i].timestamp = now
          /\ now + d <= MaxTrendTime
          /\ Tick(now + d)

SpecTrend == Init /\ [][NextTrend]_vars

\* C14: let the prior readings of a sensor be the detector's input, its other
\* readings of the last 10 minutes, the 5 newest at most, and m their mean
\* temperature.  With at least 2 of them a stored reading gets a
\* rapid_temperature_change finding exactly when |value - m| > 15.0; with fewer
\* than 2 it gets no trend finding and detection raises no error.
C14_Trend ==
    [][\A r \in BagToSet(inflight), sid \in Sensors, t \in TrendTemps :
          HandleSensorAdd(r, sid, t, TrendHum, 1, -1) =>
              LET new == security_events' (-) security_events
                  trend == BagCount(new, {e \in BagToSet(new) :
                                             e.anomaly_type = "rapid_temperature_change"})
                  id == Len(sensor_data')
              IN  \E S \in RecentChoices(sensor_data', id, now) :
                      LET n == Cardinality(S)
                          sum == SumOver(sensor_data', S, "temperature")
                      IN  /\ (n >= 2 /\ Abs(n * t - sum) > n * 150) => trend = 1
                          /\ (n >= 2 /\ Abs(n * t - sum) <= n * 150) => trend = 0
                          /\ n < 2 =>
                                /\ trend = 0
                                /\ \A e \in BagToSet(new) :
                                      e.anomaly_type # "rapid_humidity_change"
                                /\ \A q \in BagToSet(inflight') :
                                      q.status = 200 /\ ~q.detect_failed]_vars

\* C14 witness: the first two readings, 20.0 each, left no trend finding, and
\* the third, 35.1 with the mean of its two priors at 20.0, left exactly one.
C14_Witness ==
    /\ Len(sensor_data) = 3
    /\ inflight = EmptyBag
    /\ sensor_data[1].temperature = 200 /\ sensor_data[2].temperature = 200
    /\ sensor_data[3].temperature = 351
    /\ BagCount(security_events, {e \in BagToSet(security_events) :
                                    e.anomaly_type = "rapid_temperature_change"}) = 1
    /\ \A e \in BagToSet(security_events) :
          e.anomaly_type = "rapid_temperature_change" =>
              e.severity = "high" /\ e.confidence = 85


----
\* The pattern detector: one client posts readings of one sensor, each later
\* than the one before, and then asks for the analysis of the sensor.
MaxPattern == 10
MaxAnalyze == 1
PatternTemps == {250, 251}
PatternHum == 500

AnalysesSeen ==
    BagCount(audit_logs, {a \in BagToSet(audit_logs) : a.endpoint = "/security/analyze-sensor"})
    + BagCount(inflight, {q \in BagToSet(inflight) : q.endpoint = "/security/analyze-sensor"})

NextPattern ==
    \/ /\ Len(sensor_data) < MaxPattern
       /\ AnalysesSeen = 0
       /\ inflight = EmptyBag
       /\ \A i \in DOMAIN sensor_data : sensor_data[i].timestamp < now
       /\ DispatchPre(IngestClient, "/sensor/add", "Mozilla")
    \/ \E r \in BagToSet(inflight), sid \in Sensors, t \in PatternTemps :
          HandleSensorAdd(r, sid, t, PatternHum, 1, -1)
    \/ /\ AnalysesSeen < MaxAnalyze
       /\ inflight = EmptyBag
       /\ DispatchPre(IngestClient, "/security/analyze-sensor", "Mozilla")
    \/ \E r \in BagToSet(inflight), sid \in Sensors : HandleAnalyzeSensor(r, sid, 1)
    \/ \E r \in BagToSet(inflight) : DispatchPost(r)
    \/ /\ inflight = EmptyBag
       /\ AnalysesSeen = 0
       /\ \E i \in DOMAIN sensor_data : sensor_data[i].timestamp = now
       /\ Tick(now + 1)

SpecPattern == Init /\ [][NextPattern]_vars

SameValues(a, b) == a.temperature = b.temperature /\ a.humidity = b.humidity

\* C15: when the analysis of a sensor finds at least 10 readings of the last
\* hour, newest first, and the readings at indices 1 to 5 have the temperature
\* and humidity of index 0, it records one identical_readings_pattern finding;
\* when only 4 readings have the values of index 0 it records none.
C15_Replay ==
    [][\A r \in BagToSet(inflight), sid \in Sensors :
          HandleAnalyzeSensor(r, sid, 1) =>
              LET new == security_events' (-) security_events
                  emitted == BagCount(new, {e \in BagToSet(new) :
                                               e.anomaly_type = "identical_readings_pattern"})
              IN  \E rr \in HourReadings(sensor_data, sid, now) :
                      Len(rr) >= 10 =>
                         /\ (\A i \in 2..6 : SameValues(sensor_data[rr[i]], sensor_data[rr[1]]))
                               => emitted = 1
                         /\ Cardinality({i \in 2..Len(rr) :
                                SameValues(sensor_data[rr[i]], sensor_data[rr[1]])}) = 4
                               => emitted = 0]_vars

\* C15 witness: the analysis ran on 10 readings of the last hour of which the
\* newest six are 25.0 / 50.0 and the oldest four 25.1 / 50.0, and recorded an
\* identical_readings_pattern finding of severity medium.
C15_Witness ==
    /\ Len(sensor_data) = 10
    /\ \A i \in 5..10 : sensor_data[i].temperature = 250
    /\ \A i \in 1..4 : sensor_data[i].temperature = 251
    /\ resp.endpoint = "/security/analyze-sensor" /\ resp.status = 200
    /\ inflight = EmptyBag
    /\ \E e \in BagToSet(security_events) :
          /\ e.anomaly_type = "identical_readings_pattern"
          /\ e.severity = "medium" /\ e.confidence = 80
          /\ security_events[e] = 1


----
\* the kinds of finding of the humidity bands
HumidityKinds ==
    {"critical_humidity_high", "critical_humidity_low",
     "high_humidity_warning", "low_humidity_warning"}

\* the findings of the threshold classifier among the recorded events
ThresholdEvents ==
    {e \in BagToSet(security_events) :
        e.anomaly_type \in TemperatureKinds \cup HumidityKinds}

----
\* Failed logins: one client logs in, with good or bad credentials; five
\* minutes may pass and the maintenance may run in between.
MaxLoginRequests == 11
LoginClient == "10.0.0.1"
LoginTimes == {0, 300}

NextLogin ==
    \/ /\ LoginClient \in blocked_ips \/ RequestsSeen < MaxLoginRequests
       /\ inflight = EmptyBag
       /\ DispatchPre(LoginClient, "/auth/login", "Mozilla")
    \/ \E r \in BagToSet(inflight), status \in {200, 401} : HandleLogin(r, status)
    \/ \E r \in BagToSet(inflight) : DispatchPost(r)
    \/ \E t \in LoginTimes : inflight = EmptyBag /\ Tick(t)
    \/ Maintenance

SpecLogin == Init /\ [][NextLogin]_vars

FailedLogins(susp, client_ip) == SuspGet(susp, SuspKey(client_ip, "failed_login"))

\* C17: a 401 response of the login endpoint adds one to the client's
\* failed-login counter; if that leaves the counter at 5 or more it logs one
\* suspicious_login event of severity high; if it leaves it at 10 or more it
\* also puts the client on the block list and logs one ip_blocked event of
\* severity critical.  No other response, from a handler or from the
\* interceptor, changes the counter.
C17_FailedLogin ==
    [][/\ \A r \in BagToSet(inflight) :
             (DispatchPost(r) /\ r.endpoint = "/auth/login" /\ r.status = 401) =>
                LET n == FailedLogins(suspicious_activities', r.client)
                    logged(event_type, severity) ==
                        EventCount(security_events', event_type, severity, r.client)
                        - EventCount(security_events, event_type, severity, r.client)
                IN  /\ n = FailedLogins(suspicious_activities, r.client) + 1
                    /\ logged("suspicious_login", "high") = (IF n >= 5 THEN 1 ELSE 0)
                    /\ logged("ip_blocked", "critical") = (IF n >= 10 THEN 1 ELSE 0)
                    /\ n >= 10 => r.client \in blocked_ips'
                    /\ n < 10 => blocked_ips' = blocked_ips
       /\ (/\ resp' # resp
           /\ ~(resp'.from = "handler" /\ resp'.endpoint = "/auth/login"
                  /\ resp'.status = 401))
             => FailedLogins(suspicious_activities', LoginClient)
                   = FailedLogins(suspicious_activities, LoginClient)]_vars

\* C17 witness: the tenth failed login in a row has just been answered: the
\* counter is 10, the client is blocked, and six suspicious_login events and
\* one ip_blocked event are logged.
C17_Witness ==
    /\ FailedLogins(suspicious_activities, LoginClient) = 10
    /\ resp.endpoint = "/auth/login" /\ resp.status = 401 /\ resp.from = "handler"
    /\ LoginClient \in blocked_ips
    /\ EventCount(security_events, "suspicious_login", "high", LoginClient) = 6
    /\ EventCount(security_events, "ip_blocked", "critical", LoginClient) = 1


----
\* Scanning: one client asks for pages of which some are missing; the
\* maintenance may run in between.
MaxScanRequests == 22
ScanClient == "10.0.0.1"

NextScan ==
    \/ /\ ScanClient \in blocked_ips \/ RequestsSeen < MaxScanRequests
       /\ inflight = EmptyBag
       /\ DispatchPre(ScanClient, "/other", "Mozilla")
    \/ \E r \in BagToSet(inflight), status \in {200, 404} : HandleOther(r, status)
    \/ \E r \in BagToSet(inflight) : DispatchPost(r)
    \/ Maintenance

SpecScan == Init /\ [][NextScan]_vars

NotFounds(susp, client_ip) == SuspGet(susp, SuspKey(client_ip, "404s"))

\* C18: a 404 response adds one to the client's 404 counter and, if that
\* leaves the counter at 20 or more, logs one potential_scanning event of
\* severity medium; it adds nobody to the block list and creates no threat
\* alert, however many 404 responses came before.
C18_Scanning ==
    [][\A r \in BagToSet(inflight) :
          (DispatchPost(r) /\ r.status = 404) =>
             LET n == NotFounds(suspicious_activities', r.client)
             IN  /\ n = NotFounds(suspicious_activities, r.client) + 1
                 /\ EventCount(security_events', "potential_scanning", "medium", r.client)
                       - EventCount(security_events, "potential_scanning", "medium", r.client)
                    = (IF n >= 20 THEN 1 ELSE 0)
                 /\ BagCardinality(security_events') - BagCardinality(security_events)
                    = (IF n >= 20 THEN 1 ELSE 0)
                 /\ blocked_ips' = blocked_ips
                 /\ threat_alerts' = threat_alerts]_vars

\* C18 witness: the client has just received its 22nd 404 response: the
\* counter is 22, three potential_scanning events are logged, the client is
\* not blocked and there is no threat alert.
C18_Witness ==
    /\ NotFounds(suspicious_activities, ScanClient) = 22
    /\ resp.status = 404 /\ resp.from = "handler"
    /\ EventCount(security_events, "potential_scanning", "medium", ScanClient) = 3
    /\ ScanClient \notin blocked_ips
    /\ threat_alerts = EmptyBag


----
\* the events of one anomaly kind among the rows of a table
KindCount(events, kinds) ==
    BagCount(events, {e \in BagToSet(events) : e.anomaly_type \in kinds})

\* the trend detector's condition on the temperature of row id
TrendExpected(data, id, current_time) ==
    \E S \in RecentChoices(data, id, current_time) :
        /\ Cardinality(S) >= 2
        /\ Abs(Cardinality(S) * data[id].temperature - SumOver(data, S, "temperature"))
              > Cardinality(S) * 150

\* C19: for a stored reading, with nothing failing in the database: while no
\* model is trained the findings are those of the threshold classifier and of
\* the trend detector; once a model is trained they are the learned-outlier
\* finding, if the model flags the reading, and those of the trend detector
\* (also when the model flags the reading), with no threshold finding.
C19_Orchestrator ==
    [][\A r \in BagToSet(inflight), sid \in Sensors, t \in Temps, h \in Hums,
          p \in Predictions :
          (HandleSensorAdd(r, sid, t, h, p, -1) /\ Len(sensor_data') > Len(sensor_data)) =>
              LET new == security_events' (-) security_events
                  trend == IF TrendExpected(sensor_data', Len(sensor_data'), now)
                           THEN 1 ELSE 0
              IN  /\ KindCount(new, {"rapid_temperature_change"}) = trend
                  /\ ~trained.model_trained =>
                        /\ KindCount(new, TemperatureKinds)
                              = (IF FirstTier(t) = "none" THEN 0 ELSE 1)
                        /\ KindCount(new, {"ml_detected_anomaly"}) = 0
                  /\ trained.model_trained =>
                        /\ KindCount(new, TemperatureKinds \cup HumidityKinds) = 0
                        /\ KindCount(new, {"ml_detected_anomaly"})
                              = (IF p = -1 THEN 1 ELSE 0)]_vars


----
\* C20: the block list only grows: no step of the interceptor, of a handler or
\* of the maintenance takes a client off it, also when the maintenance lets the
\* client's suspicion counter decay below the threshold that blocked it.
C20_BlockTerminal ==
    [][blocked_ips \subseteq blocked_ips']_vars

\* C20 witness: the client was blocked by its tenth failed login, the
\* maintenance has since lowered the counter to 9, and a later request of the
\* client has been refused with 403.
C20_Witness ==
    /\ LoginClient \in blocked_ips
    /\ maint.runs >= 1
    /\ FailedLogins(suspicious_activities, LoginClient) = 9
    /\ resp.status = 403 /\ resp.from = "interceptor"


----
\* C21 as stated: in every state every timestamp held in the counter of a
\* (client, endpoint) pair is >= now - window of the endpoint.
C21_WindowAlways ==
    \A k \in DOMAIN rate_limit_storage :
        \A i \in DOMAIN rate_limit_storage[k] :
            rate_limit_storage[k][i] >= now - rate_limits(k[2]).window

\* C21 amended: the rate-limit check of a request leaves in the counter of the
\* request's (client, endpoint) pair only timestamps later than now - window,
\* whether it admits the request or rejects it; between two checks of the pair
\* the counter keeps what the last check left.
C21_WindowAfterCheck ==
    [][\A e \in {"/sensor/add"} :
          (DispatchPre(IngestClient, e, "Mozilla") /\ IngestClient \notin blocked_ips) =>
              LET times == StorageGet(rate_limit_storage', RateKey(IngestClient, e))
              IN  /\ \A i \in DOMAIN times : times[i] > now - rate_limits(e).window
                  /\ \A i \in DOMAIN times : times[i] <= now]_vars

\* C21 witness: the second request came 100 seconds after the first and its
\* check dropped the first request's timestamp from the counter.
C21_Witness ==
    /\ now = 100
    /\ Len(sensor_data) = 2
    /\ sensor_data[1].timestamp = 0
    /\ StorageGet(rate_limit_storage, RateKey(IngestClient, "/sensor/add")) = <<100>>


----
\* C22: a step changes a suspicion counter by +1 (a step of a request: a
\* rate-limit rejection, a login 401, a 404) or by -1 (a step of the
\* maintenance) or not at all; no stored counter is negative; the maintenance
\* deletes a counter only when its decay has brought it to zero, and leaves no
\* counter of zero behind when it returns.
C22_Counters ==
    [][/\ \A k \in (DOMAIN suspicious_activities) \cup (DOMAIN suspicious_activities') :
             LET old == SuspGet(suspicious_activities, k)
                 new == SuspGet(suspicious_activities', k)
             IN  /\ new \in {old - 1, old, old + 1}
                 /\ new = old + 1 => maint' = maint
                 /\ new = old - 1 => maint' # maint
                 /\ new >= 0
                 /\ (k \in DOMAIN suspicious_activities
                       /\ k \notin DOMAIN suspicious_activities') => old <= 1
       /\ maint'.pc = "idle" =>
             \A k \in DOMAIN suspicious_activities' : suspicious_activities'[k] >= 1]_vars


----
\* the SecurityEvent the claim expects for a finding reported for a client
ExpectedEvent(finding, client_ip) ==
    [event_type |-> "anomaly", severity |-> finding.severity, source_ip |-> client_ip,
     sensor_id |-> finding.sensor_id, anomaly_type |-> finding.anomaly_type,
     confidence |-> finding.confidence, endpoint |-> "none", status |-> "open"]

\* C23: when a reading is stored and nothing raises, the events the handler adds
\* are, one for one, the findings the detectors returned for the reading: each
\* finding has exactly one event of type anomaly, status open, with the
\* finding's sensor_id and severity, and there is no other new event.
C23_Sink ==
    [][\A r \in BagToSet(inflight) :
          (/\ r.stage = "handler"
           /\ Len(sensor_data') > Len(sensor_data)
           /\ \A q \in BagToSet(inflight') : ~q.detect_failed) =>
              \E recent_readings \in RecentChoices(sensor_data', Len(sensor_data'), now) :
                  LET found == detect_sensor_anomalies(
                                   trained.model_trained, sensor_data', recent_readings,
                                   Len(sensor_data'), 1).anomalies
                      new == security_events' (-) security_events
                      expected == {ExpectedEvent(found[i], r.client) : i \in DOMAIN found}
                  IN  /\ BagToSet(new) = expected
                      /\ \A e \in expected :
                            CopiesIn(e, new)
                               = Cardinality({i \in DOMAIN found :
                                                 ExpectedEvent(found[i], r.client) = e})
                      /\ security_events \sqsubseteq security_events']_vars

\* C23 witness: the reading 35.0 / 95.0 was stored and its two findings, one
\* high and one critical, have one open anomaly event each.
C23_Witness ==
    /\ Len(sensor_data) = 1
    /\ sensor_data[1].temperature = 350 /\ sensor_data[1].humidity = 950
    /\ BagCardinality(security_events) = 2
    /\ \E e \in BagToSet(security_events) :
          /\ e.event_type = "anomaly" /\ e.status = "open" /\ e.sensor_id = "s1"
          /\ e.anomaly_type = "high_temperature_warning" /\ e.severity = "high"
    /\ \E e \in BagToSet(security_events) :
          /\ e.event_type = "anomaly" /\ e.status = "open" /\ e.sensor_id = "s1"
          /\ e.anomaly_type = "critical_humidity_high" /\ e.severity = "critical"


----
\* Audit logging: one client with a tool's User-Agent logs in, with good or bad
\* credentials, until it is rate limited and blocked; five minutes may pass in
\* between.
MaxAuditRequests == 11

NextAudit ==
    \/ /\ LoginClient \in blocked_ips \/ RequestsSeen < MaxAuditRequests
       /\ inflight = EmptyBag
       /\ DispatchPre(LoginClient, "/auth/login", "curl")
    \/ \E r \in BagToSet(inflight), status \in {200, 401} : HandleLogin(r, status)
    \/ \E r \in BagToSet(inflight) : DispatchPost(r)
    \/ \E t \in LoginTimes : inflight = EmptyBag /\ Tick(t)

SpecAudit == Init /\ [][NextAudit]_vars

\* the events only the traffic pattern analyzer logs
AnalyzerEvents(events) ==
    BagCount(events, {e \in BagToSet(events) :
                         e.event_type \in {"suspicious_login", "potential_scanning",
                                           "suspicious_user_agent"}})

----
\* The pattern detector on more than 10 readings: one client posts readings of
\* one sensor, each a second after the one before, the first of them 25.0, and
\* then asks for the analysis of the sensor.
MaxReplay == 11
ReplayWarmup == 4


NextReplay ==
    \/ /\ Len(sensor_data) < MaxReplay
       /\ AnalysesSeen = 0
       /\ inflight = EmptyBag
       /\ \A i \in DOMAIN sensor_data : sensor_data[i].timestamp < now
       /\ DispatchPre(IngestClient, "/sensor/add", "Mozilla")
    \/ \E r \in BagToSet(inflight), sid \in Sensors, t \in (IF Len(sensor_data) < ReplayWarmup THEN {250} ELSE {250, 251}) :
          HandleSensorAdd(r, sid, t, PatternHum, 1, -1)
    \/ /\ AnalysesSeen < MaxAnalyze
       /\ inflight = EmptyBag
       /\ DispatchPre(IngestClient, "/security/analyze-sensor", "Mozilla")
    \/ \E r \in BagToSet(inflight), sid \in Sensors : HandleAnalyzeSensor(r, sid, 1)
    \/ \E r \in BagToSet(inflight) : DispatchPost(r)
    \/ /\ inflight = EmptyBag
       /\ AnalysesSeen = 0
       /\ \E i \in DOMAIN sensor_data : sensor_data[i].timestamp = now
       /\ Tick(now + 1)

SpecReplay == Init /\ [][NextReplay]_vars

\* the rows among positions from..to of a newest-first list that have the
\* values of its first row
Matches(data, rr, from, to) ==
    Cardinality({i \in from..to : i <= Len(rr) /\ SameValues(data[rr[i]], data[rr[1]])})

\* the pattern findings of one kind added by a step
PatternEmitted(kind) ==
    KindCount(security_events' (-) security_events, {kind})

\* C25 as stated: with more than 10 readings in the last hour the replay
\* signature is found exactly when at least 5 of the 10 newest readings after
\* the newest repeat the newest; older readings add no match.
C25_TopTenOnly ==
    [][\A r \in BagToSet(inflight), sid \in Sensors :
          HandleAnalyzeSensor(r, sid, 1) =>
              \E rr \in HourReadings(sensor_data, sid, now) :
                  Len(rr) > 10 =>
                     (PatternEmitted("identical_readings_pattern") = 1
                         <=> Matches(sensor_data, rr, 2, 10) >= 5)]_vars

\* C25 amended: with at least 10 readings in the last hour the replay
\* signature is found exactly when at least 5 of all the readings of the last
\* hour after the newest repeat the newest; readings older than the 10th
\* newest count like the others.
C25_WholeHour ==
    [][\A r \in BagToSet(inflight), sid \in Sensors :
          HandleAnalyzeSensor(r, sid, 1) =>
              \E rr \in HourReadings(sensor_data, sid, now) :
                  Len(rr) >= 10 =>
                     (PatternEmitted("identical_readings_pattern") = 1
                         <=> Matches(sensor_data, rr, 2, Len(rr)) >= 5)]_vars

\* C25 witness: of 11 readings of the last hour only 4 of the 10 newest repeat
\* the newest, the 11th does too, and the analysis recorded the finding.
C25_Witness ==
    /\ Len(sensor_data) = 11
    /\ resp.endpoint = "/security/analyze-sensor" /\ resp.status = 200
    /\ sensor_data[11].temperature = 250
    /\ Cardinality({i \in 2..10 : sensor_data[i].temperature = 250}) = 4
    /\ sensor_data[1].temperature = 250
    /\ KindCount(security_events, {"identical_readings_pattern"}) = 1


----
\* the rows among the first 10 of a newest-first list whose temperature and
\* humidity, in tenths, have no decimal place
Integral(data, rr) ==
    Cardinality({i \in 1..10 : /\ i <= Len(rr)
                               /\ data[rr[i]].temperature % 10 = 0
                               /\ data[rr[i]].humidity % 10 = 0})

\* C26: with at least 10 readings in the last hour the analysis records one
\* unrealistic_precision_pattern finding, severity medium and confidence 0.70,
\* exactly when at least 8 of the 10 newest readings have an integral
\* temperature and an integral humidity; with fewer than 10 readings it
\* records no pattern finding at all.
C26_Precision ==
    [][\A r \in BagToSet(inflight), sid \in Sensors :
          HandleAnalyzeSensor(r, sid, 1) =>
              LET new == security_events' (-) security_events
              IN  \E rr \in HourReadings(sensor_data, sid, now) :
                      /\ Len(rr) >= 10 =>
                            /\ PatternEmitted("unrealistic_precision_pattern")
                                  = (IF Integral(sensor_data, rr) >= 8 THEN 1 ELSE 0)
                            /\ \A e \in BagToSet(new) :
                                  e.anomaly_type = "unrealistic_precision_pattern" =>
                                      /\ e.severity = "medium" /\ e.confidence = 70
                                      /\ e.event_type = "anomaly" /\ e.sensor_id = sid
                      /\ Len(rr) < 10 =>
                            /\ PatternEmitted("unrealistic_precision_pattern") = 0
                            /\ PatternEmitted("identical_readings_pattern") = 0]_vars

\* C26 witness: of 11 readings of the last hour all but the 2nd and 3rd newest
\* are 25.0 / 50.0, so 8 of the 10 newest are integral, and the analysis
\* recorded the precision finding.
C26_Witness ==
    /\ Len(sensor_data) = 11
    /\ resp.endpoint = "/security/analyze-sensor" /\ resp.status = 200
    /\ sensor_data[10].temperature = 251 /\ sensor_data[9].temperature = 251
    /\ \A i \in (1..8) \cup {11} : sensor_data[i].temperature = 250
    /\ \E e \in BagToSet(security_events) :
          /\ e.anomaly_type = "unrealistic_precision_pattern"
          /\ e.severity = "medium" /\ e.confidence = 70
          /\ security_events[e] = 1


----
\* Training again and again while readings come in and rows of earlier runs
\* leave the 30-day window. trainer.version counts the train_model calls.
MaxRetrain == 3
MaxRetrainRequests == 2

\* train_model called between requests, from call to return
TrainCall ==
    /\ trainer.pc = "idle"
    /\ trainer.version < MaxRetrain
    /\ inflight = EmptyBag
    /\ trained' = train_model(trained, (old_rows + Len(sensor_data)), trainer.version + 1)
    /\ trainer' = [trainer EXCEPT !.version = @ + 1]
    /\ UNCHANGED <<now, rate_limit_storage, blocked_ips, suspicious_activities,
                   security_events, threat_alerts, audit_logs, sensor_data, old_rows,
                   inflight, resp, admitted, infer, maint>>

\* the oldest row of an earlier run falls behind "utcnow() - timedelta(days=30)"
ExpireOldRow ==
    /\ old_rows = MaxOldRows
    /\ inflight = EmptyBag
    /\ old_rows' = old_rows - 1
    /\ UNCHANGED <<now, rate_limit_storage, blocked_ips, suspicious_activities,
                   security_events, threat_alerts, audit_logs, sensor_data, trained,
                   inflight, resp, admitted, trainer, infer, maint>>

NextRetrain ==
    \/ /\ RequestsSeen < MaxRetrainRequests
       /\ inflight = EmptyBag
       /\ DispatchPre(IngestClient, "/sensor/add", "Mozilla")
    \/ \E r \in BagToSet(inflight), sid \in Sensors, t \in {250, 500}, p \in Predictions :
          HandleSensorAdd(r, sid, t, FloodHum, p, -1)
    \/ \E r \in BagToSet(inflight) : DispatchPost(r)
    \/ TrainCall
    \/ ExpireOldRow

SpecRetrain == InitIngest /\ [][NextRetrain]_vars

\* C27: when a train_model call returns, model_trained is true exactly when
\* the call found at least 100 readings of the trailing 30 days; with fewer
\* rows nothing is fitted (scaler, model and scores stay as they were) and no
\* error comes out of the call; and while model_trained is false a stored
\* reading is judged by the rules: thresholds of temperature and humidity plus
\* the rapid-change check, whatever the model would have predicted.
C27_Training ==
    [][/\ trainer'.version > trainer.version =>
             /\ trained'.model_trained <=> ((old_rows + Len(sensor_data)) >= 100)
             /\ (old_rows + Len(sensor_data)) < 100 =>
                   /\ trained'.scaler = trained.scaler
                   /\ trained'.model = trained.model
                   /\ trained'.training_scores = trained.training_scores
             /\ trainer'.pc = "idle"
       /\ (~trained.model_trained /\ trained'.model_trained) =>
             (trainer'.version > trainer.version /\ (old_rows + Len(sensor_data)) >= 100)
       /\ \A r \in BagToSet(inflight) :
             (/\ r.stage = "handler"
              /\ Len(sensor_data') > Len(sensor_data)
              /\ ~trained.model_trained) =>
                 \E recent_readings \in RecentChoices(sensor_data', Len(sensor_data'), now) :
                     LET found == _detect_anomalies_rule_based(
                                      sensor_data', recent_readings,
                                      Len(sensor_data')).anomalies
                         new == security_events' (-) security_events
                     IN  /\ BagToSet(new)
                              = {ExpectedEvent(found[i], r.client) : i \in DOMAIN found}
                         /\ BagCardinality(new) = Len(found)
                         /\ \A q \in BagToSet(inflight') : ~q.detect_failed]_vars

\* C27 witness: a first training with 100 rows succeeded, one row left the
\* window, a second training with 99 rows switched the model off, and the
\* reading of 50.0 degrees stored afterwards was judged by the thresholds.
C27_Witness ==
    /\ trainer.version = 2 /\ trained.model = 1 /\ ~trained.model_trained
    /\ old_rows = MaxOldRows - 1
    /\ Len(sensor_data) = 2
    /\ sensor_data[1].temperature = 250 /\ sensor_data[2].temperature = 500
    /\ KindCount(security_events, {"critical_temperature_high"}) = 1


----
\* C28: periodic maintenance never changes a rate-limit decision and leaves
\* the block list alone. admitted holds every admitted timestamp of a pair and
\* is never pruned, so it gives the decision of a run without maintenance: a
\* request is admitted only when fewer than limit admitted requests of the pair
\* lie within the window, and rejected only when at least limit do.
C28_MaintenanceNeutral ==
    [][/\ \A c \in Clients, e \in Endpoints :
             LET key == RateKey(c, e)
                 inWindow == LaterThan(StorageGet(admitted, key),
                                       now - rate_limits(e).window)
             IN  /\ Len(StorageGet(admitted', key)) > Len(StorageGet(admitted, key))
                       => inWindow < rate_limits(e).limit
                 /\ (/\ Violations(security_events', c) > Violations(security_events, c)
                     /\ resp'.endpoint = e)
                       => inWindow >= rate_limits(e).limit
       /\ maint' # maint => blocked_ips' = blocked_ips]_vars


----
\* Overlapping requests: one client fails logins, and a second request may
\* enter the interceptor while the first waits for its handler ("await
\* call_next" gives the event loop to other requests).
MaxOverlap == 2
MaxOverlapRequests == 11

NextOverlap ==
    \/ /\ LoginClient \in blocked_ips \/ RequestsSeen < MaxOverlapRequests
       /\ InFlightCount < MaxOverlap
       /\ dispatch(LoginClient, "/auth/login", "Mozilla")
    \/ \E r \in BagToSet(inflight) : HandleLogin(r, 401)
    \/ \E r \in BagToSet(inflight) : DispatchPost(r)
    \/ \E t \in {0, 300, 600} : Tick(t)

SpecOverlap == Init /\ [][NextOverlap]_vars

\* C29: for each client at most one ip_blocked event and at most one alert
\* with action "blocked" are ever logged, also when a request that passed the
\* block-list check before the client was blocked completes afterwards.
C29_BlockedOnce ==
    \A c \in Clients :
        /\ BagCount(security_events,
                    {e \in BagToSet(security_events) : /\ e.event_type = "ip_blocked"
                                                       /\ e.source_ip = c}) <= 1
        /\ BagCount(threat_alerts,
                    {a \in BagToSet(threat_alerts) : /\ a.action_taken = "blocked"
                                                     /\ a.source_ip = c}) <= 1


----
\* One sensor posts one reading in every second it is heard of, one request
\* at a time, and may fall silent for a while; the interceptor's limit of the
\* route (60 per 60 s) is never reached at this pace.
MaxSensorFloodTime == 62

PostedNow ==
    LET times == StorageGet(admitted, RateKey(IngestClient, "/sensor/add"))
    IN  \E i \in DOMAIN times : times[i] = now

NextSensorFlood ==
    \/ /\ inflight = EmptyBag
       /\ ~PostedNow
       /\ DispatchPre(IngestClient, "/sensor/add", "Mozilla")
    \/ \E r \in BagToSet(inflight), sid \in Sensors :
          HandleSensorAdd(r, sid, FloodTemp, FloodHum, 1, -1)
    \/ \E r \in BagToSet(inflight) : DispatchPost(r)
    \/ \E d \in {1, 39} :
          /\ inflight = EmptyBag
          /\ PostedNow
          /\ now + d <= MaxSensorFloodTime
          /\ Tick(now + d)

SpecSensorFlood == Init /\ [][NextSensorFlood]_vars

\* rows of a sensor with a timestamp in the minute from..from + 60
RowsInMinute(data, sensor_id, from) ==
    Cardinality({i \in DOMAIN data : /\ data[i].sensor_id = sensor_id
                                     /\ data[i].timestamp >= from
                                     /\ data[i].timestamp <= from + FloodWindow})

\* C30: when the sensor has more than 20 rows of the trailing minute, the add
\* request is answered 429, no row is stored and exactly one event (anomaly,
\* high, data_flooding, open) is added, which stays in the table afterwards;
\* and with one request at a time a sensor never has more than 21 rows in any
\* one minute.
C30_SensorFlood ==
    [][/\ \A r \in BagToSet(inflight), sid \in Sensors :
             (/\ r.stage = "handler" /\ r.endpoint = "/sensor/add"
              /\ HandleSensorAdd(r, sid, FloodTemp, FloodHum, 1, -1)
              /\ RowsInMinute(sensor_data, sid, now - FloodWindow) > 20) =>
                 LET new == security_events' (-) security_events
                 IN  /\ \A q \in BagToSet(inflight') : q.status = 429
                     /\ sensor_data' = sensor_data
                     /\ BagCardinality(new) = 1
                     /\ \A e \in BagToSet(new) :
                           /\ e.event_type = "anomaly" /\ e.severity = "high"
                           /\ e.anomaly_type = "data_flooding" /\ e.sensor_id = sid
                           /\ e.status = "open"
       /\ security_events \sqsubseteq security_events'
       /\ \A sid \in Sensors, from \in 0..now :
             RowsInMinute(sensor_data', sid, from) <= 21]_vars

\* C30 witness: 21 rows of seconds 0..20 are stored, the request of second 60
\* was refused with 429 as the 40th flooding event, no row of seconds 21..60
\* exists, and the request of second 61 was stored as the 22nd row.
C30_Witness ==
    /\ now = 61 /\ Len(sensor_data) = 22
    /\ sensor_data[21].timestamp = 20 /\ sensor_data[22].timestamp = 61
    /\ KindCount(security_events, {"data_flooding"}) = 40
    /\ resp.endpoint = "/sensor/add" /\ resp.status = 200

====
